---- MODULE Spec2Model ----
(***************************************************************************)
(* Pipeline orchestration core of novel-agent: the phase state machine     *)
(* (core/fsm.py), the project snapshot (core/state.py), the phase handlers *)
(* of ProjectManager (core/manager.py) and the HITL artifact step of       *)
(* WorkflowEngine (core/workflow.py).                                      *)
(***************************************************************************)
EXTENDS Integers, Sequences, FiniteSets, TLC

\* Most candidates one call of generate_fn returns.
MaxCands == 2

\* Most phase handlers started in one behaviour.
MaxRuns == 1

\* cfg["workflow"]["branching"]["num_candidates"]: how many candidate drafts one
\* scene gets in branching mode.
num_candidates == 2

\* The longest scene-plan text, in lines, and the most '#' a heading line has.
MaxLen == 3

MaxHashes == 3

\* The length of the linear chain of scenes the archive window is followed on.
ChainLen == 20

\* MemoryManager.consolidate_memory's defaults.
window_size == 10

archive_batch_size == 5

\* How many reroll and revise commands the operator gives during one drafting
\* loop.
MaxEdits == 1

\* Archive entries a run that is resumed between consolidations may reach.
MaxArchives == 3

(***************************************************************************)
(* core/fsm.py                                                             *)
(***************************************************************************)

\* The values of the ProjectPhase enumeration.
ProjectPhase ==
    {"init", "ideation", "outline", "bible", "scene_plan", "drafting", "review", "done"}

\* StateMachine.TRANSITIONS, the adjacency list (only membership is used).
TRANSITIONS ==
    [p \in ProjectPhase |->
        CASE p = "init"       -> {"ideation"}
          [] p = "ideation"   -> {"outline"}
          [] p = "outline"    -> {"bible", "ideation"}
          [] p = "bible"      -> {"scene_plan", "outline"}
          [] p = "scene_plan" -> {"drafting", "bible", "outline"}
          [] p = "drafting"   -> {"review", "scene_plan"}
          [] p = "review"     -> {"done", "drafting"}
          [] p = "done"       -> {}]

\* The attribute lookup fsm_lib.ProjectPhase.<NAME>: a member of the enumeration,
\* or AttributeError when the enumeration has no such member.
HasPhaseAttr(name) == name \in ProjectPhase

\* StateMachine.current_phase: state.step as a phase, INIT when it is no phase value.
current_phase(st) == IF st.step \in ProjectPhase THEN st.step ELSE "init"

can_transition_SelfLoop(st, target) ==
    target \in TRANSITIONS[current_phase(st)] \cup {current_phase(st)}

\* StateMachine.can_transition
can_transition(st, target) == target \in TRANSITIONS[current_phase(st)]

\* The phases execute_next_step dispatches on, in the order of its branches.
PhasesUsed ==
    {"init", "ideation", "outline", "bible", "scene_plan", "drafting", "review",
     "export", "done"}

\* StateMachine.get_available_actions
get_available_actions(st) ==
    LET current == current_phase(st) IN
    CASE current = "init"       -> <<"start_ideation">>
      [] current = "ideation"   -> <<"run_ideation", "finalize_ideation">>
      [] current = "outline"    -> <<"run_outline", "finalize_outline", "back_to_ideation">>
      [] current = "bible"      -> <<"run_bible", "finalize_bible", "back_to_outline">>
      [] current = "scene_plan" -> <<"init_scenes", "finalize_scene_plan", "back_to_bible">>
      [] current = "drafting"   -> <<"resume_drafting", "review_progress", "back_to_scene_plan">>
      [] current = "review"     -> <<"finalize_project", "back_to_drafting">>
      [] current = "done"       -> <<"view_result", "export", "back_to_review">>
      [] OTHER                  -> <<>>

(***************************************************************************)
(* core/state.py                                                           *)
(***************************************************************************)

\* The steps run through run_step_with_hitl, and the ProjectState fields of each.
HitlSteps == {"ideation", "outline", "bible", "scene_plan"}

CandField(s) ==
    CASE s = "ideation"   -> "idea_candidates"
      [] s = "outline"    -> "outline_candidates"
      [] s = "bible"      -> "bible_candidates"
      [] s = "scene_plan" -> "scene_plan_candidates"

PathField(s) ==
    CASE s = "ideation"   -> "idea_path"
      [] s = "outline"    -> "outline_path"
      [] s = "bible"      -> "bible_path"
      [] s = "scene_plan" -> "scene_plan_path"

\* Texts a provider call may return for step s.  A text is its lines: n >= 1 is a
\* heading of n '#' characters, 0 is a "> 梗概：" summary line.  Only the scene plan
\* is ever read by the core (init_scenes parses it), so only it comes in two shapes:
\* a root scene with a summary and one branch child, and two root scenes.
Texts(s) == IF s = "scene_plan" THEN {<<1, 0, 2>>, <<1, 1>>} ELSE {<<1>>}

\* ArtifactCandidate(id=f"v{i}", content=text): selected defaults to False.  cls is
\* the Python type of the value: the dataclass, or the plain dict json gives back.
ArtifactCandidate(i, text) ==
    [id |-> i, content |-> text, selected |-> FALSE, cls |-> "ArtifactCandidate"]

\* SceneNode(id, title, status="pending", meta={"level": level}); parent_id 0 is None.
\* candidates is empty and selected_candidate_id 0 is None; content_path <<>> is "".
\* level is meta["level"]; meta holds the keys that are added to the dict later.
SceneNode(id, level) ==
    [id |-> id, status |-> "pending", content_path |-> <<>>, summary |-> "",
     candidates |-> <<>>, selected_candidate_id |-> 0,
     parent_id |-> 0, branches |-> <<>>, level |-> level, meta |-> <<>>]

\* SceneCandidate(id=cid, content_path=rel_path): selected defaults to False.
SceneCandidate(cid, path) ==
    [id |-> cid, content_path |-> path, selected |-> FALSE, cls |-> "SceneCandidate"]

\* ProjectState(run_id, run_dir): the field defaults.  scenes holds the node
\* objects in creation order and the root list as indexes into them.
\* last_archived_depth is no dataclass field: it is the attribute
\* consolidate_memory sets on the object and reads with getattr(..., 0).
ProjectState ==
    [step |-> "init", system_status |-> "idle",
     idea_path |-> "", outline_path |-> "", bible_path |-> "", scene_plan_path |-> "",
     idea_candidates |-> <<>>, outline_candidates |-> <<>>,
     bible_candidates |-> <<>>, scene_plan_candidates |-> <<>>,
     archived_summaries |-> <<>>, last_archived_scene_id |-> 0,
     last_archived_depth |-> 0,
     scenes |-> [roots |-> <<>>, nodes |-> <<>>]]

\* dataclasses.asdict on a candidate list: every candidate becomes a dict.
AsDict(cands) ==
    IF cands = <<>> THEN <<>> ELSE [i \in 1..Len(cands) |-> [cands[i] EXCEPT !.cls = "dict"]]

\* [ArtifactCandidate(**c) for c in cands]
AsCandidates(cands) ==
    IF cands = <<>> THEN <<>>
    ELSE [i \in 1..Len(cands) |-> [cands[i] EXCEPT !.cls = "ArtifactCandidate"]]

\* SceneNode.to_dict on every node of the tree: asdict turns the node's candidates
\* into dicts.
ScenesToDict(scenes) ==
    [scenes EXCEPT !.nodes =
        IF @ = <<>> THEN <<>>
        ELSE [i \in 1..Len(@) |-> [@[i] EXCEPT !.candidates = AsDict(@)]]]

\* SceneNode.from_dict on every node: node.candidates = [SceneCandidate(**c) ...].
ScenesFromDict(scenes) ==
    [scenes EXCEPT !.nodes =
        IF @ = <<>> THEN <<>>
        ELSE [i \in 1..Len(@) |->
                 [@[i] EXCEPT !.candidates =
                     IF @ = <<>> THEN <<>>
                     ELSE [k \in 1..Len(@) |-> [@[k] EXCEPT !.cls = "SceneCandidate"]]]]]

\* ProjectState.save: the content json.dump writes to state.json.
save(st) ==
    [st EXCEPT !.idea_candidates = AsDict(@), !.outline_candidates = AsDict(@),
               !.bible_candidates = AsDict(@), !.scene_plan_candidates = AsDict(@),
               !.scenes = ScenesToDict(@),
               \* asdict covers the dataclass fields only
               !.last_archived_depth = 0]

\* ProjectState.load: cls(**data), then the scenes and the idea, outline and bible
\* candidates are rebuilt as objects; scene_plan_candidates stays as json gave it.
load(snap) ==
    [snap EXCEPT !.idea_candidates = AsCandidates(@), !.outline_candidates = AsCandidates(@),
                 !.bible_candidates = AsCandidates(@),
                 !.scenes = ScenesFromDict(@)]

(***************************************************************************)
(* core/manager.py: the scene-plan parser and the phase handlers' helpers  *)
(***************************************************************************)

\* A variant that also lists every branch node among the roots.
ParseLine_RootAlso(acc, line) ==
    IF line = 0
    THEN IF acc.current = 0 THEN acc
         ELSE [acc EXCEPT !.nodes[acc.current].summary = "plan"]
    ELSE
      LET level == line - 1
          idx   == Len(acc.nodes) + 1
          new   == SceneNode(acc.counter, level)
          asRoot ==
              [acc EXCEPT !.nodes = Append(@, new), !.roots = Append(@, idx),
                          !.stack = <<idx>>, !.counter = @ + 1, !.current = idx]
          under(parent, stack) ==
              [acc EXCEPT !.nodes = Append([@ EXCEPT ![parent].branches = Append(@, idx)],
                                           [new EXCEPT !.parent_id = acc.nodes[parent].id]),
                          !.roots = Append(@, idx),
                          !.stack = stack, !.counter = @ + 1, !.current = idx]
      IN  IF level = 0 THEN asRoot
          ELSE IF level <= Len(acc.stack)
               THEN under(acc.stack[level], Append(SubSeq(acc.stack, 1, level), idx))
          ELSE IF acc.stack # <<>>
               THEN under(acc.stack[Len(acc.stack)], Append(acc.stack, idx))
          ELSE asRoot

\* One line of _parse_scene_plan_text's loop.  acc holds the node objects built so
\* far, the root list, the stack and current_node (indexes of node objects, 0 for
\* None) and auto_id_counter.
ParseLine(acc, line) ==
    IF line = 0
    THEN IF acc.current = 0 THEN acc
         ELSE [acc EXCEPT !.nodes[acc.current].summary = "plan"]
    ELSE
      LET level == line - 1
          idx   == Len(acc.nodes) + 1
          new   == SceneNode(acc.counter, level)
          asRoot ==
              [acc EXCEPT !.nodes = Append(@, new), !.roots = Append(@, idx),
                          !.stack = <<idx>>, !.counter = @ + 1, !.current = idx]
          under(parent, stack) ==
              [acc EXCEPT !.nodes = Append([@ EXCEPT ![parent].branches = Append(@, idx)],
                                           [new EXCEPT !.parent_id = acc.nodes[parent].id]),
                          !.stack = stack, !.counter = @ + 1, !.current = idx]
      IN  IF level = 0 THEN asRoot
          ELSE IF level <= Len(acc.stack)
               THEN under(acc.stack[level], Append(SubSeq(acc.stack, 1, level), idx))
          ELSE IF acc.stack # <<>>
               THEN under(acc.stack[Len(acc.stack)], Append(acc.stack, idx))
          ELSE asRoot

RECURSIVE ParseLines(_, _)
ParseLines(acc, lines) ==
    IF lines = <<>> THEN acc ELSE ParseLines(ParseLine(acc, Head(lines)), Tail(lines))

\* ProjectManager._parse_scene_plan_text
_parse_scene_plan_text(text) ==
    LET r == ParseLines([nodes |-> <<>>, roots |-> <<>>, stack |-> <<>>,
                         current |-> 0, counter |-> 1], text)
    IN  [roots |-> r.roots, nodes |-> r.nodes]

\* ProjectManager._is_step_executed for the four artifact steps.
_is_step_executed(st, s) ==
    CASE s = "ideation"   -> st.idea_path # ""
      [] s = "outline"    -> st.outline_path # ""
      [] s = "bible"      -> st.bible_path # ""
      [] s = "scene_plan" -> st.scenes.roots # <<>>

\* _reset_ideation, _reset_outline, _reset_bible, _reset_scene_plan: the fields
\* each clears (each also removes the step's directory and saves).
_reset(st, s) ==
    CASE s = "ideation"   -> [st EXCEPT !.idea_path = "", !.idea_candidates = <<>>]
      [] s = "outline"    -> [st EXCEPT !.outline_path = "", !.outline_candidates = <<>>]
      [] s = "bible"      -> [st EXCEPT !.bible_path = "", !.bible_candidates = <<>>]
      [] s = "scene_plan" -> [st EXCEPT !.scenes = [roots |-> <<>>, nodes |-> <<>>],
                                        !.scene_plan_path = "",
                                        !.scene_plan_candidates = <<>>]

\* The phase a handler moves to when the operator skips an executed step.
NextPhase(s) ==
    CASE s = "ideation"   -> "outline"
      [] s = "outline"    -> "bible"
      [] s = "bible"      -> "scene_plan"
      [] s = "scene_plan" -> "drafting"

\* A variant in which only run_outline looks for its upstream artifact.
MissingDependency_OutlineOnly(st, s) == s = "outline" /\ st.idea_path = ""

\* The upstream artifact a handler needs: run_outline needs idea_path, run_bible and
\* init_scenes need outline_path, run_ideation needs none.
MissingDependency(st, s) ==
    CASE s = "ideation"   -> FALSE
      [] s = "outline"    -> st.idea_path = ""
      [] s = "bible"      -> st.outline_path = ""
      [] s = "scene_plan" -> st.outline_path = ""

\* The file each handler writes the selected candidate to (store.save_text).
SelectedFile(s) ==
    CASE s = "ideation"   -> "01_ideation/ideas_selected.txt"
      [] s = "outline"    -> "02_outline/outline_selected.md"
      [] s = "bible"      -> "03_bible/bible_selected.md"
      [] s = "scene_plan" -> "04_scene_plan/scene_plan_selected.md"

NoFile == [exists |-> FALSE, content |-> <<>>]

(***************************************************************************)
(* The state of one run                                                    *)
(***************************************************************************)

VARIABLES
    state,        \* the in-memory ProjectState
    disk,         \* the last complete content written to state.json
    intact,       \* FALSE while state.json is a truncated or partial record
    files,        \* the selected-artifact files under the run directory
    interactive,  \* cfg["workflow"]["interactive"]
    pc,           \* where the running handler stands; "idle" between operations
    hitl,         \* the frame of the running run_step_with_hitl call
    runs,         \* how many phase handlers have been started
    last,         \* how the operation called last ended: the exception it raised,
                  \* or "ok", "skipped", "finalized", "loaded", "new"; "running"
                  \* while a handler runs
    cfg,          \* cfg["workflow"]["branching"]["enabled"] and ["auto_polish"]
    scene_files,  \* the scene files under 05_drafting/scenes and 06_polishing/scenes
    tasks,        \* the futures of the running ThreadPoolExecutor, by submission
    ab            \* the frame of the running drafting or review call

vars == <<state, disk, intact, files, interactive, pc, hitl, runs, last,
          cfg, scene_files, tasks, ab>>

draftVars == <<cfg, scene_files, tasks, ab>>

NoHitl == [step |-> "none", cached |-> FALSE, entry_gen |-> 0, ret |-> 0]

\* The scene files: 05_drafting/scenes/scene_NNN_vC.json of candidate C,
\* 05_drafting/scenes/scene_NNN.json (candidate 0 stands for no suffix) and
\* 06_polishing/scenes/scene_NNN.json, for the scene ids a plan of Texts gives.
SceneIds ==
    UNION {{_parse_scene_plan_text(t).nodes[i].id :
               i \in 1..Len(_parse_scene_plan_text(t).nodes)} : t \in Texts("scene_plan")}

ScenePaths ==
    {<<d, id, c>> : d \in {"05_drafting", "06_polishing"}, id \in SceneIds,
                    c \in 0..num_candidates}

CandPath(id, cid) == <<"05_drafting", id, cid>>
StandardPath(id) == <<"05_drafting", id, 0>>
PolishedPath(id) == <<"06_polishing", id, 0>>

NoSceneFiles == [p \in ScenePaths |-> NoFile]

\* No drafting or review call is running.
NoAb ==
    [root |-> 0, node |-> 0, auto_mode |-> FALSE, candidates |-> <<>>, shown |-> <<>>,
     winner |-> 0, rerolls |-> 0, asked |-> 0]

\* A run whose configuration leaves branching and auto_polish off and that has
\* drafted nothing.
DraftIdle ==
    /\ cfg = [branching |-> FALSE, auto_polish |-> FALSE]
    /\ scene_files = NoSceneFiles
    /\ tasks = <<>>
    /\ ab = NoAb

\* state.save() on st: state.json is rewritten whole.
Saved(st) == disk' = save(st) /\ intact' = TRUE

\* A run that an earlier session left with its idea finalized from the first of
\* two candidates and its outline from its only candidate (run_ideation, the skip
\* to OUTLINE, run_outline).
OutlinedState ==
    LET chosen == [ArtifactCandidate(1, <<1>>) EXCEPT !.selected = TRUE] IN
    [ProjectState EXCEPT !.step = "outline", !.system_status = "running",
                         !.idea_path = SelectedFile("ideation"),
                         !.idea_candidates = <<chosen, ArtifactCandidate(2, <<1>>)>>,
                         !.outline_path = SelectedFile("outline"),
                         !.outline_candidates = <<chosen>>]

OutlinedFiles ==
    [s \in HitlSteps |->
        IF s \in {"ideation", "outline"}
        THEN [exists |-> TRUE, content |-> <<1>>] ELSE NoFile]

\* ProjectManager.__init__: the state of a project as its snapshot gives it, a new
\* project (the ProjectState defaults, step INIT) or one an earlier session left
\* with idea and outline done.
Init ==
    /\ \/ state = ProjectState /\ files = [s \in HitlSteps |-> NoFile]
       \/ state = OutlinedState /\ files = OutlinedFiles
    /\ disk = save(state)
    /\ intact = TRUE
    /\ interactive \in BOOLEAN
    /\ pc = "idle"
    /\ hitl = NoHitl
    /\ runs = 0
    /\ last = "new"
    /\ DraftIdle

(***************************************************************************)
(* core/fsm.py: transition_to, and the operations that are one call of it  *)
(***************************************************************************)

transition_to_TableOnly(st, target, force) ==
    IF ~can_transition(st, target)
    THEN [raised |-> TRUE, state |-> st, written |-> FALSE]
    ELSE [raised |-> FALSE, state |-> [st EXCEPT !.step = target], written |-> TRUE]

transition_to_AssignFirst(st, target, force) ==
    IF ~force /\ ~can_transition(st, target)
    THEN [raised |-> TRUE, state |-> [st EXCEPT !.step = target], written |-> FALSE]
    ELSE [raised |-> FALSE, state |-> [st EXCEPT !.step = target], written |-> TRUE]

transition_to_ResetsDownstream(st, target, force) ==
    IF ~force /\ ~can_transition(st, target)
    THEN [raised |-> TRUE, state |-> st, written |-> FALSE]
    ELSE [raised |-> FALSE,
          state |-> [st EXCEPT !.step = target, !.outline_path = "",
                               !.outline_candidates = <<>>,
                               !.scenes = [roots |-> <<>>, nodes |-> <<>>]],
          written |-> TRUE]

\* StateMachine.transition_to: raises ValueError before it touches anything, or
\* sets state.step and calls state.save().
transition_to(st, target, force) ==
    IF ~force /\ ~can_transition(st, target)
    THEN [raised |-> TRUE, state |-> st, written |-> FALSE]
    ELSE [raised |-> FALSE, state |-> [st EXCEPT !.step = target], written |-> TRUE]

\* The effect of one call r of transition_to on the state and the snapshot.
Transitioned(r) ==
    /\ state' = r.state
    /\ IF r.written THEN Saved(r.state) ELSE UNCHANGED <<disk, intact>>

\* A call of fsm.transition_to(target, force) from the driver (main.py --step with
\* --auto forces the phase) or from any holder of the state machine.
TransitionTo(target, force) ==
    /\ UNCHANGED draftVars
    /\ pc = "idle"
    /\ LET r == transition_to(state, target, force) IN
       /\ Transitioned(r)
       /\ last' = IF r.raised THEN "IllegalTransition" ELSE "ok"
       /\ pc' = IF r.raised THEN "raised" ELSE "idle"
    /\ UNCHANGED <<files, interactive, hitl, runs>>

\* ProjectManager.rollback(target_phase_str): an unknown name is reported and the
\* method returns; a target the table allows is moved to, any other is refused;
\* after either, line 124 calls self.state.save().
Rollback(name) ==
    /\ UNCHANGED draftVars
    /\ pc = "idle"
    /\ IF ~HasPhaseAttr(name)
       THEN /\ last' = "invalid_name"
            /\ UNCHANGED <<state, disk, intact, pc>>
       ELSE IF can_transition(state, name)
       THEN LET r == transition_to(state, name, FALSE) IN
            IF r.raised
            THEN /\ Transitioned(r)
                 /\ last' = "IllegalTransition"
                 /\ pc' = "raised"
            ELSE /\ state' = r.state
                 /\ Saved(r.state)
                 /\ last' = "ok"
                 /\ UNCHANGED pc
       ELSE /\ last' = "refused"
            /\ Saved(state)
            /\ UNCHANGED <<state, pc>>
    /\ UNCHANGED <<files, interactive, hitl, runs>>

\* ProjectManager.run_export: its first statement looks up ProjectPhase.EXPORT,
\* which raises AttributeError; nothing after it runs.
RunExport ==
    /\ UNCHANGED draftVars
    /\ pc = "idle"
    /\ ~HasPhaseAttr("export")
    /\ last' = "AttributeError: export"
    /\ pc' = "raised"
    /\ UNCHANGED <<state, disk, intact, files, interactive, hitl, runs>>

\* ProjectManager.__init__ with a run_id: the process starts again (after it ended,
\* was interrupted or failed) and ProjectState.load reads the snapshot, which
\* json.load accepts only when it is a complete record.
Resume ==
    /\ intact
    /\ state' = load(disk)
    /\ pc' = "idle"
    /\ hitl' = NoHitl
    /\ last' = "loaded"
    /\ tasks' = <<>>
    /\ ab' = NoAb
    /\ UNCHANGED <<disk, intact, files, interactive, runs, cfg, scene_files>>

(***************************************************************************)
(* core/manager.py: run_ideation, run_outline, run_bible, init_scenes      *)
(***************************************************************************)

\* The handler of step s up to its call of run_step_with_hitl.  rewrite tells
\* whether the operator, asked by _prompt_rewrite about an executed step, chose to
\* rewrite and confirmed it; any other answer skips.
run_handler(s, force, rewrite) ==
    /\ UNCHANGED draftVars
    /\ LET executed == _is_step_executed(state, s)
           proceed  == force \/ ~executed \/ rewrite
           doReset  == ~force /\ executed /\ rewrite
       IN
       IF ~proceed
       THEN \* skipped: self.fsm.transition_to(<next phase>); return
            LET r == transition_to(state, NextPhase(s), FALSE) IN
            /\ Transitioned(r)
            /\ last' = IF r.raised THEN "IllegalTransition" ELSE "skipped"
            /\ pc' = IF r.raised THEN "raised" ELSE "idle"
            /\ UNCHANGED <<files, hitl>>
       ELSE LET st1 == IF doReset THEN _reset(state, s) ELSE state
                r   == transition_to(st1, s, TRUE)
            IN
            /\ Transitioned(r)
            /\ files' = IF doReset THEN [files EXCEPT ![s] = NoFile] ELSE files
            /\ IF MissingDependency(r.state, s)
               THEN /\ last' = "MissingDependency"
                    /\ UNCHANGED <<pc, hitl>>
               ELSE /\ last' = "running"
                    /\ hitl' = [NoHitl EXCEPT !.step = s,
                                              !.cached = (r.state[CandField(s)] # <<>>)]
                    /\ pc' = IF r.state[CandField(s)] = <<>>
                             THEN "hitl_generate" ELSE "hitl_check"
    /\ UNCHANGED interactive

\* One call of a phase handler by the operator's command.
RunStep(s, force, rewrite) ==
    /\ pc = "idle"
    /\ runs < MaxRuns
    /\ runs' = runs + 1
    /\ run_handler(s, force, rewrite)

\* After run_step_with_hitl returned: save_text of the selected content, the path
\* field, for init_scenes the parsed scenes, and state.save().
Finalize ==
    /\ UNCHANGED draftVars
    /\ pc = "finalize"
    /\ LET s    == hitl.step
           text == state[CandField(s)][hitl.ret].content
           st1  == [state EXCEPT ![PathField(s)] = SelectedFile(s)]
           st2  == IF s = "scene_plan"
                   THEN [st1 EXCEPT !.scenes = _parse_scene_plan_text(text)] ELSE st1
       IN
       /\ files' = [files EXCEPT ![s] = [exists |-> TRUE, content |-> text]]
       /\ state' = st2
       /\ Saved(st2)
       /\ last' = "finalized"
    /\ pc' = "idle"
    /\ hitl' = NoHitl
    /\ UNCHANGED <<interactive, runs>>

(***************************************************************************)
(* core/workflow.py: WorkflowEngine.run_step_with_hitl                     *)
(***************************************************************************)

\* What generate_fn may return: [ArtifactCandidate(id=f"v{i+1}", content=text) ...]
\* for the texts the pipeline step produced, none to MaxCands of them.
Generated(s) ==
    UNION {[1..n -> Texts(s)] : n \in 0..MaxCands}

NewCandidates(texts) ==
    IF texts = <<>> THEN <<>>
    ELSE [i \in 1..Len(texts) |-> ArtifactCandidate(i, texts[i])]

\* The exception leaves run_step_with_hitl and the handler that called it, and
\* reaches the driver: main.py lets it end the process or, under --auto, reports
\* it and returns.  No further operation runs on this manager.
Raise(outcome) ==
    /\ pc' = "raised"
    /\ hitl' = NoHitl
    /\ last' = outcome

\* The candidates field of the step being run.
Cands == state[CandField(hitl.step)]

\* Lines 47-51: no cached candidates, so generate_fn() is called and its result
\* stored in the candidates field; an exception is logged and raised again.
HitlGenerate ==
    /\ UNCHANGED draftVars
    /\ pc = "hitl_generate"
    /\ \/ /\ Raise("ProviderError")
          /\ UNCHANGED state
       \/ \E texts \in Generated(hitl.step) :
          /\ state' = [state EXCEPT ![CandField(hitl.step)] = NewCandidates(texts)]
          /\ hitl' = [hitl EXCEPT !.entry_gen = @ + 1]
          /\ pc' = "hitl_save"
          /\ UNCHANGED last
    /\ UNCHANGED <<disk, intact, files, interactive, runs>>

HitlSave_Skip ==
    /\ UNCHANGED draftVars
    /\ pc = "hitl_save"
    /\ pc' = "hitl_check"
    /\ UNCHANGED <<state, disk, intact, files, interactive, hitl, runs, last>>

\* Line 52: self.state.save() right after the candidates were stored.
HitlSave ==
    /\ UNCHANGED draftVars
    /\ pc = "hitl_save"
    /\ Saved(state)
    /\ pc' = "hitl_check"
    /\ UNCHANGED <<state, files, interactive, hitl, runs, last>>

\* Lines 58-66: no candidates is a ValueError; headless takes candidates[0] and
\* sets its selected flag; interactive enters the operator loop, whose listing
\* reads c.content of every candidate.  A candidate that is a plain dict has
\* neither attribute, so both branches raise AttributeError on it.
HitlCheck ==
    /\ UNCHANGED draftVars
    /\ pc = "hitl_check"
    /\ IF Cands = <<>>
       THEN /\ Raise("NoCandidates")
            /\ UNCHANGED state
       ELSE IF ~interactive
       THEN IF Cands[1].cls = "dict"
            THEN /\ Raise("AttributeError: dict")
                 /\ UNCHANGED state
            ELSE /\ state' = [state EXCEPT ![CandField(hitl.step)][1].selected = TRUE]
                 /\ hitl' = [hitl EXCEPT !.ret = 1]
                 /\ pc' = "hitl_final"
                 /\ UNCHANGED last
       ELSE IF \E i \in 1..Len(Cands) : Cands[i].cls = "dict"
            THEN /\ Raise("AttributeError: dict")
                 /\ UNCHANGED state
            ELSE /\ pc' = "hitl_prompt"
                 /\ UNCHANGED <<state, hitl, last>>
    /\ UNCHANGED <<disk, intact, files, interactive, runs>>

\* Operator input 'r', line 85: the candidates field is cleared.
HitlReroll ==
    /\ UNCHANGED draftVars
    /\ pc = "hitl_prompt"
    /\ state' = [state EXCEPT ![CandField(hitl.step)] = <<>>]
    /\ pc' = "hitl_reroll"
    /\ UNCHANGED <<disk, intact, files, interactive, hitl, runs, last>>

\* Lines 86-87: generate_fn() again; its exception is not caught here.
HitlRerollGenerate ==
    /\ UNCHANGED draftVars
    /\ pc = "hitl_reroll"
    /\ \/ /\ Raise("ProviderError")
          /\ UNCHANGED state
       \/ \E texts \in Generated(hitl.step) :
          /\ state' = [state EXCEPT ![CandField(hitl.step)] = NewCandidates(texts)]
          /\ pc' = "hitl_reroll_save"
          /\ UNCHANGED <<hitl, last>>
    /\ UNCHANGED <<disk, intact, files, interactive, runs>>

\* Lines 88-90: state.save(), then `continue` to the next prompt.
HitlRerollSave ==
    /\ UNCHANGED draftVars
    /\ pc = "hitl_reroll_save"
    /\ Saved(state)
    /\ pc' = "hitl_prompt"
    /\ UNCHANGED <<state, files, interactive, hitl, runs, last>>

\* Operator input 'eN' with a valid N, a non-empty feedback and a provider call
\* that returns: the candidate's content is replaced and the state saved.
HitlRevise(idx, text) ==
    /\ UNCHANGED draftVars
    /\ pc = "hitl_prompt"
    /\ idx \in 1..Len(Cands)
    /\ text \in Texts(hitl.step)
    /\ state' = [state EXCEPT ![CandField(hitl.step)][idx].content = text]
    /\ Saved(state')
    /\ UNCHANGED <<files, interactive, pc, hitl, runs, last>>

\* Every input that changes nothing and loops back to the prompt: 'vN' (view), an
\* out-of-range or unreadable number, 'eN' with empty feedback, a revision whose
\* provider call raised (caught and printed).
HitlContinue ==
    /\ pc = "hitl_prompt"
    /\ UNCHANGED vars

\* Operator input N with 1 <= N <= len(candidates): lines 135-141.
HitlSelect(idx) ==
    /\ UNCHANGED draftVars
    /\ pc = "hitl_prompt"
    /\ idx \in 1..Len(Cands)
    /\ state' = [state EXCEPT ![CandField(hitl.step)][idx].selected = TRUE]
    /\ hitl' = [hitl EXCEPT !.ret = idx]
    /\ pc' = "hitl_final"
    /\ UNCHANGED <<disk, intact, files, interactive, runs, last>>

\* Lines 148-150: system_status, state.save(), return selected_candidate.
HitlFinal ==
    /\ UNCHANGED draftVars
    /\ pc = "hitl_final"
    /\ state' = [state EXCEPT !.system_status = "running"]
    /\ Saved(state')
    /\ pc' = "finalize"
    /\ UNCHANGED <<files, interactive, hitl, runs, last>>

(***************************************************************************)
(* The specification                                                       *)
(***************************************************************************)

Next ==
    \/ \E t \in ProjectPhase, force \in BOOLEAN : TransitionTo(t, force)
    \/ \E name \in ProjectPhase \cup {"export"} : Rollback(name)
    \/ RunExport
    \/ Resume
    \/ \E s \in HitlSteps, force, rewrite \in BOOLEAN : RunStep(s, force, rewrite)
    \/ HitlGenerate
    \/ HitlSave
    \/ HitlCheck
    \/ HitlReroll
    \/ HitlRerollGenerate
    \/ HitlRerollSave
    \/ \E idx \in 1..MaxCands, text \in UNION {Texts(s) : s \in HitlSteps} :
           HitlRevise(idx, text)
    \/ HitlContinue
    \/ \E idx \in 1..MaxCands : HitlSelect(idx)
    \/ HitlFinal
    \/ Finalize

Spec == Init /\ [][Next]_vars

\* transition_to when state.save() raises OSError: state.step is already assigned
\* (fsm.py line 60); open(path, "w") either failed before it truncated state.json
\* or json.dump failed after, leaving a file json.load rejects.  Nothing restores
\* state.step, and the exception reaches the caller.
TransitionToSaveFails(target, force) ==
    /\ UNCHANGED draftVars
    /\ pc = "idle"
    /\ LET r == transition_to(state, target, force) IN
       /\ ~r.raised
       /\ state' = r.state
    /\ intact' \in {intact, FALSE}
    /\ last' = "OSError"
    /\ pc' = "raised"
    /\ UNCHANGED <<disk, files, interactive, hitl, runs>>

\* The program on a file system whose writes can fail.
SpecFault ==
    /\ Init
    /\ [][\/ Next
          \/ \E t \in ProjectPhase, force \in BOOLEAN : TransitionToSaveFails(t, force)]_vars

\* transition_to(target, force) in a process that stops inside state.save():
\* before open(path, "w") the file is the previous snapshot, between open and the
\* end of json.dump it is empty or partial, after it the new snapshot.
TransitionToStopped(target, force) ==
    /\ UNCHANGED draftVars
    /\ pc = "idle"
    /\ LET r == transition_to(state, target, force) IN
       /\ ~r.raised
       /\ state' = r.state
       /\ \/ UNCHANGED <<disk, intact>>
          \/ intact' = FALSE /\ UNCHANGED disk
          \/ Saved(r.state)
    /\ last' = "stopped"
    /\ pc' = "raised"
    /\ UNCHANGED <<files, interactive, hitl, runs>>

\* The program in processes that can be stopped while they save.
SpecStopped ==
    /\ Init
    /\ [][\/ Next
          \/ \E t \in ProjectPhase, force \in BOOLEAN : TransitionToStopped(t, force)]_vars

\* A run whose session ended after run_step_with_hitl had stored and saved the
\* scene-plan candidates (workflow.py line 52) and before init_scenes finished.
ScenePlanPendingState ==
    [OutlinedState EXCEPT
        !.step = "scene_plan",
        !.scene_plan_candidates = <<ArtifactCandidate(1, <<1, 0, 2>>)>>]

\* ProjectManager.__init__ with the run_id of that run: ProjectState.load.
InitReloaded ==
    /\ state = load(save(ScenePlanPendingState))
    /\ disk = save(ScenePlanPendingState)
    /\ files = OutlinedFiles
    /\ intact = TRUE
    /\ interactive \in BOOLEAN
    /\ pc = "idle"
    /\ hitl = NoHitl
    /\ runs = 0
    /\ last = "loaded"
    /\ DraftIdle

\* The program resumed on that run.
SpecReloaded == InitReloaded /\ [][Next]_vars

(***************************************************************************)
(* core/manager.py: init_scenes on any scene-plan text                     *)
(***************************************************************************)

\* The scene-plan texts of up to MaxLen lines: 0 is a line "> Summary: ...", n > 0
\* a heading line that starts with n '#'.
PlanTexts == UNION {[1..n -> 0..MaxHashes] : n \in 0..MaxLen}

\* init_scenes after run_step_with_hitl returned the selected plan, before the
\* text is parsed.
InitParse ==
    /\ \E text \in PlanTexts :
          state = [OutlinedState EXCEPT
                      !.step = "scene_plan",
                      !.system_status = "running",
                      !.scene_plan_candidates =
                          <<[ArtifactCandidate(1, text) EXCEPT !.selected = TRUE]>>]
    /\ disk = save(state)
    /\ files = OutlinedFiles
    /\ intact = TRUE
    /\ interactive \in BOOLEAN
    /\ pc = "finalize"
    /\ hitl = [NoHitl EXCEPT !.step = "scene_plan", !.entry_gen = 1, !.ret = 1]
    /\ runs = 1
    /\ last = "running"
    /\ DraftIdle

SpecParse == InitParse /\ [][Finalize]_vars

(***************************************************************************)
(* core/memory.py: MemoryManager                                           *)
(***************************************************************************)

\* A variant of dfs that leaves a node on the path when its subtree fails.
RECURSIVE dfs_NoPop(_, _, _)
dfs_NoPop(scenes, nodes, target) ==
    IF nodes = <<>> THEN <<>>
    ELSE LET k == Head(nodes) IN
         IF scenes.nodes[k].id = target THEN <<k>>
         ELSE LET sub == dfs_NoPop(scenes, scenes.nodes[k].branches, target) IN
              IF sub # <<>> THEN <<k>> \o sub
              ELSE <<k>> \o dfs_NoPop(scenes, Tail(nodes), target)

\* get_linear_path's inner dfs(nodes, current_path): what it leaves appended to
\* current_path, <<>> when it returns False.
RECURSIVE dfs(_, _, _)
dfs(scenes, nodes, target) ==
    IF nodes = <<>> THEN <<>>
    ELSE LET k == Head(nodes) IN
         IF scenes.nodes[k].id = target THEN <<k>>
         ELSE LET sub == dfs(scenes, scenes.nodes[k].branches, target) IN
              IF sub # <<>> THEN <<k>> \o sub
              ELSE dfs(scenes, Tail(nodes), target)

\* MemoryManager.get_linear_path(target_scene_id), as node objects.
get_linear_path(scenes, target) == dfs(scenes, scenes.roots, target)

\* path[start_index:end_index]
Slice(path, start_index, end_index) ==
    SubSeq(path, start_index + 1, IF end_index < Len(path) THEN end_index ELSE Len(path))

\* MemoryManager.consolidate_memory(current_scene_id, window_size,
\* archive_batch_size).  An archive entry is written as the ids of the scenes
\* whose summaries it folds.
consolidate_memory(st, current_scene_id, window, batch) ==
    LET path == get_linear_path(st.scenes, current_scene_id)
        current_depth == Len(path)
        start_index == st.last_archived_depth
        end_index == st.last_archived_depth + batch
        nodes == Slice(path, start_index, end_index)
        summaries == SelectSeq(nodes, LAMBDA k : st.scenes.nodes[k].summary # "")
    IN
    IF path = <<>>
    THEN [state |-> st, saved |-> FALSE, outcome |-> "no_path"]
    ELSE IF current_depth - start_index >= window
    THEN IF summaries # <<>>
         THEN [state |->
                  [st EXCEPT
                      !.archived_summaries =
                          Append(@, [i \in 1..Len(summaries) |->
                                        st.scenes.nodes[summaries[i]].id]),
                      !.last_archived_depth = end_index,
                      !.last_archived_scene_id = st.scenes.nodes[nodes[Len(nodes)]].id],
               saved |-> TRUE, outcome |-> "archived"]
         ELSE [state |-> st, saved |-> FALSE, outcome |-> "no_summaries"]
    ELSE [state |-> st, saved |-> FALSE, outcome |-> "in_window"]

\* A call of consolidate_memory by the holder of the MemoryManager, who stands
\* at scene current_scene_id.
ConsolidateMemory(current_scene_id, window, batch) ==
    /\ pc = "idle"
    /\ LET r == consolidate_memory(state, current_scene_id, window, batch) IN
       /\ state' = r.state
       /\ IF r.saved THEN Saved(r.state) ELSE UNCHANGED <<disk, intact>>
       /\ last' = r.outcome
    /\ ab' = [NoAb EXCEPT !.node = current_scene_id]
    /\ UNCHANGED <<files, interactive, pc, hitl, runs, cfg, scene_files, tasks>>

\* The state init_scenes leaves when the selected plan was text and parsed to
\* scenes.
ParsedState(text, scenes) ==
    [OutlinedState EXCEPT
        !.step = "scene_plan",
        !.system_status = "running",
        !.scene_plan_path = SelectedFile("scene_plan"),
        !.scene_plan_candidates =
            <<[ArtifactCandidate(1, text) EXCEPT !.selected = TRUE]>>,
        !.scenes = scenes]

InitParsed(st) ==
    /\ state = st
    /\ disk = save(state)
    /\ files = [OutlinedFiles EXCEPT
                   !["scene_plan"] =
                       [exists |-> TRUE, content |-> state.scene_plan_candidates[1].content]]
    /\ intact = TRUE
    /\ interactive \in BOOLEAN
    /\ pc = "idle"
    /\ hitl = NoHitl
    /\ runs = 1
    /\ last = "finalized"
    /\ DraftIdle

InitMemory ==
    \E text \in PlanTexts : InitParsed(ParsedState(text, _parse_scene_plan_text(text)))

SpecMemory ==
    /\ InitMemory
    /\ [][\E id \in 1..(MaxLen + 1), window \in 1..MaxLen, batch \in 1..MaxLen :
              ConsolidateMemory(id, window, batch)]_vars

\* The same calls in a run that can stop and be resumed from state.json between
\* any two of them.
ConsolidateResumed(current_scene_id, window, batch) ==
    /\ Len(state.archived_summaries) < MaxArchives
    /\ ConsolidateMemory(current_scene_id, window, batch)

NextResumed ==
    \/ \E id \in 1..(MaxLen + 1), window \in 1..MaxLen, batch \in 1..MaxLen :
           ConsolidateResumed(id, window, batch)
    \/ Resume

SpecResumed == InitMemory /\ [][NextResumed]_vars

\* The plan of a linear chain: scene k is a heading one level below scene k - 1,
\* followed by its summary line unless k = missing.
RECURSIVE ChainText(_, _)
ChainText(n, missing) ==
    IF n = 0 THEN <<>>
    ELSE ChainText(n - 1, missing) \o (IF n = missing THEN <<n>> ELSE <<n, 0>>)

\* What _parse_scene_plan_text makes of ChainText(n, missing): scene 1 is the
\* root and scene k the only branch of scene k - 1.
ChainScenes(n, missing) ==
    [roots |-> <<1>>,
     nodes |-> [k \in 1..n |->
                  [SceneNode(k, k - 1) EXCEPT
                      !.parent_id = k - 1,
                      !.branches = IF k < n THEN <<k + 1>> ELSE <<>>,
                      !.summary = IF k = missing THEN "" ELSE "plan"]]]

InitChain ==
    \E missing \in 0..ChainLen :
        InitParsed(ParsedState(ChainText(ChainLen, missing), ChainScenes(ChainLen, missing)))

NextChain ==
    \E depth \in 1..ChainLen : ConsolidateMemory(depth, window_size, archive_batch_size)

SpecChain == InitChain /\ [][NextChain]_vars

(***************************************************************************)
(* core/context.py: ContextBuilder                                         *)
(***************************************************************************)

\* The candidate file names of build's three _load_best_content calls, in the
\* order of the lists.
Sources(folder) ==
    CASE folder = "01_ideation" -> <<"01_ideation/ideas_selected.txt", "01_ideation/ideas.txt",
                                     "01_ideation/01_brainstorm.json">>
      [] folder = "02_outline"  -> <<"02_outline/outline_selected.md", "02_outline/outline.md",
                                     "02_outline/temp/volume_1.md">>
      [] folder = "03_bible"    -> <<"03_bible/bible_selected.md", "03_bible/bible.md">>

\* The file at rel_path under the run directory: the selected artifacts are kept
\* by step, any other file by its path.
FileAt(fs, rel_path) ==
    IF \E s \in HitlSteps : SelectedFile(s) = rel_path
    THEN fs[CHOOSE s \in HitlSteps : SelectedFile(s) = rel_path]
    ELSE IF rel_path \in DOMAIN fs THEN fs[rel_path] ELSE NoFile

\* str.strip() on a text of lines, of which -1 is a line of white space only.
RECURSIVE Strip(_)
Strip(text) ==
    IF text = <<>> THEN <<>>
    ELSE IF Head(text) = -1 THEN Strip(Tail(text))
    ELSE IF text[Len(text)] = -1 THEN Strip(SubSeq(text, 1, Len(text) - 1))
    ELSE text

\* A variant that returns the first file that exists, empty or not.
RECURSIVE _load_best_content_FirstExisting(_, _)
_load_best_content_FirstExisting(fs, candidates) ==
    IF candidates = <<>> THEN <<>>
    ELSE LET f == FileAt(fs, Head(candidates)) IN
         IF f.exists
         THEN Strip(f.content)
         ELSE _load_best_content_FirstExisting(fs, Tail(candidates))

\* ContextBuilder._load_best_content(folder, candidates), candidates as the
\* rel_paths of the loop.
RECURSIVE _load_best_content(_, _)
_load_best_content(fs, candidates) ==
    IF candidates = <<>> THEN <<>>
    ELSE LET f == FileAt(fs, Head(candidates)) IN
         IF f.exists /\ Strip(f.content) # <<>>
         THEN Strip(f.content)
         ELSE _load_best_content(fs, Tail(candidates))

\* ContextBuilder._find_node_recursive(nodes, target_id): the node object, 0 for
\* None.
RECURSIVE _find_node_recursive(_, _, _)
_find_node_recursive(scenes, nodes, target_id) ==
    IF nodes = <<>> THEN 0
    ELSE LET k == Head(nodes) IN
         IF scenes.nodes[k].id = target_id THEN k
         ELSE LET found == _find_node_recursive(scenes, scenes.nodes[k].branches, target_id) IN
              IF found # 0 THEN found
              ELSE _find_node_recursive(scenes, Tail(nodes), target_id)

\* build's recent_summaries: for sid from last_archived_scene_id + 1 to
\* scene_id - 1, the entry <<sid, summary>> of the first node of state.scenes (the
\* root list) with that id, when there is one and its summary is not empty.
recent_summaries(st, scene_id) ==
    LET start_recent == st.last_archived_scene_id + 1
        end_recent   == scene_id - 1
        roots        == st.scenes.roots
        at(sid)      == {i \in 1..Len(roots) : st.scenes.nodes[roots[i]].id = sid}
        node(sid)    == st.scenes.nodes[roots[CHOOSE i \in at(sid) : \A j \in at(sid) : i <= j]]
        sids         == [i \in 1..(end_recent - start_recent + 1) |-> start_recent + i - 1]
        found        == SelectSeq(sids, LAMBDA sid : at(sid) # {} /\ node(sid).summary # "")
    IN
    [i \in 1..Len(found) |-> <<found[i], node(found[i]).summary>>]

\* build's prev_context_parts: the archived part, the recent part, and the
\* marker of the opening when there is neither.
prev_context(st, scene_id) ==
    LET history == IF st.archived_summaries # <<>>
                   THEN <<[part |-> "archived", items |-> st.archived_summaries]>>
                   ELSE <<>>
        recent  == IF recent_summaries(st, scene_id) # <<>>
                   THEN <<[part |-> "recent", items |-> recent_summaries(st, scene_id)]>>
                   ELSE <<>>
    IN  IF history \o recent = <<>>
        THEN <<[part |-> "opening", items |-> <<>>]>>
        ELSE history \o recent

\* scene_node.meta as the dict it is: the keys of meta and "level".
Meta(node) ==
    [k \in DOMAIN node.meta \cup {"level"} |->
        IF k = "level" THEN node.level ELSE node.meta[k]]

\* A variant that hands the node's meta on as it is.
safe_meta_AsIs(meta) == meta

\* build's safe_meta: a copy of meta without the key "dynamic_context".
safe_meta(meta) == [k \in DOMAIN meta \ {"dynamic_context"} |-> meta[k]]

\* ContextBuilder.build(scene_id): ValueError when no node has the id, else the
\* payload (debug_info, which repeats lengths of it, is left out).  meta is the
\* node's meta dict after the call.
build(st, fs, scene_id) ==
    LET k == _find_node_recursive(st.scenes, st.scenes.roots, scene_id) IN
    IF k = 0
    THEN [raised |-> TRUE, payload |-> <<>>, meta |-> <<>>]
    ELSE [raised |-> FALSE,
          payload |->
              [idea |-> _load_best_content(fs, Sources("01_ideation")),
               outline |-> _load_best_content(fs, Sources("02_outline")),
               bible |-> _load_best_content(fs, Sources("03_bible")),
               prev_context |-> prev_context(st, scene_id),
               scene_id |-> st.scenes.nodes[k].id,
               scene_meta |-> safe_meta(Meta(st.scenes.nodes[k]))],
          meta |-> st.scenes.nodes[k].meta]

\* _process_scene_recursive, lines 548-555: dynamic_ctx is the payload object,
\* gets the key chapter_words and is stored under meta["dynamic_context"].
Stash(meta, payload) ==
    [k \in DOMAIN meta \cup {"dynamic_context"} |->
        IF k = "dynamic_context"
        THEN [f \in DOMAIN payload \cup {"chapter_words"} |->
                 IF f = "chapter_words" THEN 3000 ELSE payload[f]]
        ELSE meta[k]]

\* A caller builds the context of scene scene_id and stashes it in the node as
\* _process_scene_recursive does; it catches the ValueError of an unknown id.
Build(scene_id) ==
    /\ pc = "idle"
    /\ LET r == build(state, files, scene_id)
           k == _find_node_recursive(state.scenes, state.scenes.roots, scene_id)
       IN
       IF r.raised
       THEN /\ last' = "ValueError"
            /\ UNCHANGED state
       ELSE /\ last' = "built"
            /\ state' = [state EXCEPT !.scenes.nodes[k].meta = Stash(r.meta, r.payload)]
    /\ UNCHANGED <<disk, intact, files, interactive, pc, hitl, runs, cfg, scene_files, tasks, ab>>

\* _process_scene_recursive, lines 562-568, for a scene whose text exists: the
\* summary analyze_scene returns is stored in the node and the state is saved.
Summarize(scene_id) ==
    /\ pc = "idle"
    /\ LET k == _find_node_recursive(state.scenes, state.scenes.roots, scene_id) IN
       /\ k # 0
       /\ state' = [state EXCEPT !.scenes.nodes[k].summary = "scene"]
       /\ Saved(state')
    /\ last' = "summarized"
    /\ UNCHANGED <<files, interactive, pc, hitl, runs, cfg, scene_files, tasks, ab>>

\* No context has been built yet.
Unbuilt ==
    \A k \in 1..Len(state.scenes.nodes) :
        "dynamic_context" \notin DOMAIN state.scenes.nodes[k].meta

\* The summaries and consolidations that precede the builds; the consolidations
\* archive scene by scene (window_size = archive_batch_size = 1).
SummarizeFirst(scene_id) == Unbuilt /\ Summarize(scene_id)

ConsolidateFirst(current_scene_id, window, batch) ==
    Unbuilt /\ ConsolidateMemory(current_scene_id, window, batch)

\* The plans made of headings only, the first of level 0 and none more than one
\* level below the heading before it: one text for every tree the parser builds.
\* Their scenes get a summary when they are drafted.
HeadingTexts ==
    {t \in UNION {[1..n -> 1..MaxHashes] : n \in 1..MaxLen} :
        /\ t[1] = 1
        /\ \A i \in 1..(Len(t) - 1) : t[i + 1] <= t[i] + 1}

NextContext ==
    \/ \E id \in 1..(MaxLen + 1) : Build(id)
    \/ \E id \in 1..MaxLen : SummarizeFirst(id)
    \/ \E id \in 1..MaxLen : ConsolidateFirst(id, 1, 1)

\* Contexts built, once or repeatedly, for the scenes of every plan after any
\* history of summaries and consolidations.
InitContext ==
    /\ \E text \in HeadingTexts : InitParsed(ParsedState(text, _parse_scene_plan_text(text)))
    /\ ~interactive

SpecContext == InitContext /\ [][NextContext]_vars

\* What a source file may be: missing, empty, white space only, or a text that
\* tells which source it is (1 the selected, 2 the merged, 3 the raw one).
SourceFiles(i) ==
    {NoFile, [exists |-> TRUE, content |-> <<>>], [exists |-> TRUE, content |-> <<-1>>],
     [exists |-> TRUE, content |-> <<-1, i, -1>>]}

\* The files of a run in which source i of the category of folder is c[i] and
\* the other categories are as the handlers left them.
SourceConfig(folder, c) ==
    LET srcs == Sources(folder) IN
    [p \in HitlSteps \cup {srcs[i] : i \in 2..Len(srcs)} |->
        IF p \in HitlSteps
        THEN IF SelectedFile(p) = srcs[1] THEN c[1] ELSE OutlinedFiles[p]
        ELSE c[CHOOSE i \in 2..Len(srcs) : srcs[i] = p]]

\* Every combination of the sources of one category.
SourceConfigs ==
    UNION {{SourceConfig(folder, c) :
               c \in {f \in [1..Len(Sources(folder)) -> UNION {SourceFiles(i) : i \in 1..3}] :
                         \A i \in 1..Len(Sources(folder)) : f[i] \in SourceFiles(i)}} :
           folder \in {"01_ideation", "02_outline", "03_bible"}}

InitSources ==
    /\ state = ParsedState(<<1>>, _parse_scene_plan_text(<<1>>))
    /\ disk = save(state)
    /\ files \in SourceConfigs
    /\ intact = TRUE
    /\ interactive = FALSE
    /\ pc = "idle"
    /\ hitl = NoHitl
    /\ runs = 1
    /\ last = "finalized"
    /\ cfg = [branching |-> FALSE, auto_polish |-> FALSE]
    /\ scene_files = NoSceneFiles
    /\ tasks = <<>>
    /\ ab = NoAb

\* Contexts built over every combination of source files.
SpecSources == InitSources /\ [][\E id \in 1..2 : Build(id)]_vars

(***************************************************************************)
(* core/manager.py: run_drafting_loop; core/workflow.py: process_scene     *)
(***************************************************************************)

\* The node object the running _process_scene_recursive call works on.
Node == state.scenes.nodes[ab.node]

\* The text a successful draft_single_scene call of candidate cid writes in
\* generation round r (candidate 0 is the single draft); <<>> is the empty string.
Draft(cid, r) == <<cid, r>>

DraftTexts(cid, r) == {<<>>, Draft(cid, r)}

\* The orders in which as_completed yields the finished futures of S.
Orders(S) ==
    {q \in [1..Cardinality(S) -> S] : \A i, j \in 1..Cardinality(S) : i # j => q[i] # q[j]}

\* The candidate list the loop over as_completed builds from the futures that
\* returned, taken in the order q.
Collected(id, q) ==
    IF q = <<>> THEN <<>>
    ELSE [i \in 1..Len(q) |-> SceneCandidate(q[i], CandPath(id, q[i]))]

\* ProjectManager._consolidate_memory(current_scene_id): the scenes with ids
\* last+1..last+5 are looked up among the root scenes only.
_consolidate_memory(st, sid) ==
    LET last_archived == st.last_archived_scene_id
        rootNodes == {st.scenes.nodes[st.scenes.roots[i]] : i \in 1..Len(st.scenes.roots)}
        found == {n \in rootNodes : n.id \in (last_archived + 1)..(last_archived + 5)
                                    /\ n.summary # ""}
        wanted == [i \in 1..5 |-> last_archived + i]
    IN
    IF sid - last_archived >= 10 /\ found # {}
    THEN [st EXCEPT !.archived_summaries =
                        Append(@, SelectSeq(wanted, LAMBDA id : \E n \in found : n.id = id)),
                    !.last_archived_scene_id = last_archived + 5]
    ELSE st

\* An exception leaves the drafting or review call: it is logged and re-raised up
\* to the driver.
RaiseDraft(outcome) ==
    /\ pc' = "raised"
    /\ last' = outcome

\* The for loop of run_drafting_loop after the call for one root returned: the
\* next root, or the notification and the unforced move to REVIEW.  written says
\* that the returning call saved st.
LoopAdvance(st, written) ==
    IF ab.root < Len(st.scenes.roots)
    THEN /\ state' = st
         /\ IF written THEN Saved(st) ELSE UNCHANGED <<disk, intact>>
         /\ ab' = [NoAb EXCEPT !.root = ab.root + 1,
                               !.node = st.scenes.roots[ab.root + 1],
                               !.auto_mode = ab.auto_mode,
                               !.asked = ab.asked]
         /\ pc' = "scene_enter"
         /\ UNCHANGED last
    ELSE LET r == transition_to(st, "review", FALSE) IN
         /\ state' = r.state
         /\ IF r.written \/ written THEN Saved(r.state) ELSE UNCHANGED <<disk, intact>>
         /\ ab' = NoAb
         /\ pc' = IF r.raised THEN "raised" ELSE "idle"
         /\ last' = IF r.raised THEN "IllegalTransition" ELSE "drafted"

\* ProjectManager.run_drafting_loop(force, auto_mode) up to the first root scene.
\* Unforced, _is_step_executed("drafting") calls state._abs_path_exists, which
\* ProjectState does not have, as soon as a root scene is done.
run_drafting_loop(force, auto_mode) ==
    /\ IF ~force /\ \E i \in 1..Len(state.scenes.roots) :
                        state.scenes.nodes[state.scenes.roots[i]].status = "done"
       THEN /\ RaiseDraft("AttributeError: _abs_path_exists")
            /\ UNCHANGED <<state, disk, intact, ab>>
       ELSE LET r == transition_to(state, "drafting", TRUE) IN
            /\ Transitioned(r)
            /\ IF r.state.scenes.roots = <<>>
               THEN /\ last' = "no_scenes"
                    /\ UNCHANGED <<pc, ab>>
               ELSE /\ last' = "running"
                    /\ pc' = "scene_enter"
                    /\ ab' = [NoAb EXCEPT !.root = 1, !.node = r.state.scenes.roots[1],
                                          !.auto_mode = auto_mode]
    /\ UNCHANGED <<files, interactive, hitl, cfg, scene_files, tasks>>

\* One call of run_drafting_loop by the operator's command.
RunDraftingLoop(force, auto_mode) ==
    /\ pc = "idle"
    /\ runs < MaxRuns
    /\ runs' = runs + 1
    /\ run_drafting_loop(force, auto_mode)

\* _process_scene_recursive up to the provider calls: a done node whose file
\* exists is skipped and _handle_branches picks the branch to descend into; any
\* other node gets its context built and stashed and is (re)generated, by one
\* call or by num_candidates submitted tasks.
ProcessSceneEnter ==
    /\ pc = "scene_enter"
    /\ IF /\ Node.status = "done"
          /\ Node.content_path # <<>>
          /\ scene_files[Node.content_path].exists
       THEN /\ IF Node.branches = <<>>
               THEN LoopAdvance(state, FALSE)
               ELSE /\ \E b \in 1..Len(Node.branches) :
                          /\ ab.auto_mode => b = 1
                          /\ ab' = [ab EXCEPT !.node = Node.branches[b]]
                    /\ UNCHANGED <<state, disk, intact, pc, last>>
            /\ UNCHANGED tasks
       ELSE /\ state' = [state EXCEPT
                            !.scenes.nodes[ab.node].status = "pending",
                            !.scenes.nodes[ab.node].meta =
                                Stash(@, build(state, files, Node.id).payload)]
            /\ IF ~cfg.branching \/ num_candidates <= 1
               THEN /\ pc' = "single"
                    /\ UNCHANGED tasks
               ELSE /\ pc' = "ab_tasks"
                    /\ tasks' = [c \in 1..num_candidates |-> "running"]
            /\ UNCHANGED <<disk, intact, ab, last>>
    /\ UNCHANGED <<files, interactive, hitl, runs, cfg, scene_files>>

\* A variant that marks the node done although draft_single_scene raised.
GenerateSingle_DoneOnRaise ==
    /\ pc = "single"
    /\ \/ /\ RaiseDraft("ProviderError")
          /\ state' = [state EXCEPT !.scenes.nodes[ab.node].status = "done"]
          /\ UNCHANGED scene_files
       \/ \E text \in DraftTexts(0, 1) :
          /\ scene_files' = [scene_files EXCEPT ![StandardPath(Node.id)] =
                                [exists |-> TRUE, content |-> text]]
          /\ state' = [state EXCEPT
                          !.scenes.nodes[ab.node].content_path = StandardPath(Node.id),
                          !.scenes.nodes[ab.node].status = "done"]
          /\ pc' = "post"
          /\ UNCHANGED last
    /\ UNCHANGED <<disk, intact, files, interactive, hitl, runs, cfg, tasks, ab>>

\* WorkflowEngine._generate_single: draft_single_scene raises, or writes the
\* standard file with whatever text the provider returned; the node is then done.
GenerateSingle ==
    /\ pc = "single"
    /\ \/ /\ RaiseDraft("ProviderError")
          /\ UNCHANGED <<state, scene_files>>
       \/ \E text \in DraftTexts(0, 1) :
          /\ scene_files' = [scene_files EXCEPT ![StandardPath(Node.id)] =
                                [exists |-> TRUE, content |-> text]]
          /\ state' = [state EXCEPT
                          !.scenes.nodes[ab.node].content_path = StandardPath(Node.id),
                          !.scenes.nodes[ab.node].status = "done"]
          /\ pc' = "post"
          /\ UNCHANGED last
    /\ UNCHANGED <<disk, intact, files, interactive, hitl, runs, cfg, tasks, ab>>

\* One submitted draft_single_scene task ends in its worker thread: it raises
\* and writes no json, or writes the file of its candidate (with a text that is
\* not empty: the empty answer is followed in _generate_single).
TaskDone(cid) ==
    /\ pc \in {"ab_tasks", "reroll_tasks"}
    /\ cid \in DOMAIN tasks
    /\ tasks[cid] = "running"
    /\ \/ /\ tasks' = [tasks EXCEPT ![cid] = "failed"]
          /\ UNCHANGED scene_files
       \/ /\ tasks' = [tasks EXCEPT ![cid] = "ok"]
          /\ scene_files' = [scene_files EXCEPT ![CandPath(Node.id, cid)] =
                                [exists |-> TRUE, content |-> Draft(cid, ab.rerolls + 1)]]
    /\ UNCHANGED <<state, disk, intact, files, interactive, pc, hitl, runs, last, cfg, ab>>

Joined == \A c \in DOMAIN tasks : tasks[c] # "running"

Succeeded == {c \in DOMAIN tasks : tasks[c] = "ok"}

\* A variant that collects without waiting for the executor's with block.
AbCollect_BeforeJoin ==
    /\ pc = "ab_tasks"
    /\ \E q \in Orders(Succeeded) :
       LET candidates == Collected(Node.id, q) IN
       /\ state' = [state EXCEPT !.scenes.nodes[ab.node].candidates = candidates]
       /\ IF candidates = <<>>
          THEN /\ RaiseDraft("RuntimeError: all candidates failed")
               /\ UNCHANGED ab
          ELSE IF ~interactive
          THEN /\ ab' = [ab EXCEPT !.candidates = candidates, !.winner = candidates[1].id]
               /\ pc' = "ab_promote"
               /\ UNCHANGED last
          ELSE /\ ab' = [ab EXCEPT !.candidates = candidates, !.shown = candidates]
               /\ pc' = "ab_prompt"
               /\ UNCHANGED last
    /\ UNCHANGED <<disk, intact, files, interactive, hitl, runs, cfg, scene_files, tasks>>

\* _generate_ab_test after the with block: the candidates of the futures that
\* returned, the fatal error when there is none, else the automatic winner
\* (candidates[0]) or the operator's prompt.
AbCollect ==
    /\ pc = "ab_tasks"
    /\ Joined
    /\ \E q \in Orders(Succeeded) :
       LET candidates == Collected(Node.id, q) IN
       /\ state' = [state EXCEPT !.scenes.nodes[ab.node].candidates = candidates]
       /\ IF candidates = <<>>
          THEN /\ RaiseDraft("RuntimeError: all candidates failed")
               /\ UNCHANGED ab
          ELSE IF ~interactive
          THEN /\ ab' = [ab EXCEPT !.candidates = candidates, !.winner = candidates[1].id]
               /\ pc' = "ab_promote"
               /\ UNCHANGED last
          ELSE /\ ab' = [ab EXCEPT !.candidates = candidates, !.shown = candidates]
               /\ pc' = "ab_prompt"
               /\ UNCHANGED last
    /\ UNCHANGED <<disk, intact, files, interactive, hitl, runs, cfg, scene_files, tasks>>

\* _manual_evaluate_ui, input "r": _reroll_all submits num_candidates new tasks.
AbReroll ==
    /\ pc = "ab_prompt"
    /\ ab.asked < MaxEdits
    /\ ab' = [ab EXCEPT !.rerolls = @ + 1, !.asked = @ + 1]
    /\ tasks' = [c \in 1..num_candidates |-> "running"]
    /\ pc' = "reroll_tasks"
    /\ UNCHANGED <<state, disk, intact, files, interactive, hitl, runs, last, cfg, scene_files>>

\* _reroll_all after its with block, and the statements after its return: the UI's
\* list and scene_node.candidates become the new list, and state.save().
AbRerollCollect ==
    /\ pc = "reroll_tasks"
    /\ Joined
    /\ \E q \in Orders(Succeeded) :
       LET new_candidates == Collected(Node.id, q) IN
       IF new_candidates = <<>>
       THEN /\ RaiseDraft("RuntimeError: reroll produced no candidates")
            /\ UNCHANGED <<state, disk, intact, ab>>
       ELSE /\ ab' = [ab EXCEPT !.shown = new_candidates]
            /\ state' = [state EXCEPT !.scenes.nodes[ab.node].candidates = new_candidates]
            /\ Saved(state')
            /\ pc' = "ab_prompt"
            /\ UNCHANGED last
    /\ UNCHANGED <<files, interactive, hitl, runs, cfg, scene_files, tasks>>

\* _manual_evaluate_ui, input "eN" on a candidate whose text is not empty: the
\* revised text replaces the content of the candidate's file, and state.save().
AbRevise(idx) ==
    /\ pc = "ab_prompt"
    /\ idx \in 1..Len(ab.shown)
    /\ ab.asked < MaxEdits
    /\ ab' = [ab EXCEPT !.asked = @ + 1]
    /\ LET path == ab.shown[idx].content_path
           original == scene_files[path].content
       IN
       /\ original # <<>>
       /\ scene_files' = [scene_files EXCEPT ![path].content = Append(original, 1)]
    /\ Saved(state)
    /\ UNCHANGED <<state, files, interactive, pc, hitl, runs, last, cfg, tasks>>

\* _manual_evaluate_ui, input "N": return candidates[N-1].id.
AbSelect(idx) ==
    /\ pc = "ab_prompt"
    /\ idx \in 1..Len(ab.shown)
    /\ ab' = [ab EXCEPT !.winner = ab.shown[idx].id]
    /\ pc' = "ab_promote"
    /\ UNCHANGED <<state, disk, intact, files, interactive, hitl, runs, last, cfg,
                   scene_files, tasks>>

\* The candidate _generate_ab_test promotes: the first one of ITS list with the
\* winner's id, else candidates[0].
PromotedIndex(candidates, winner_id) ==
    IF \E k \in 1..Len(candidates) : candidates[k].id = winner_id
    THEN CHOOSE k \in 1..Len(candidates) :
             /\ candidates[k].id = winner_id
             /\ \A j \in 1..(k - 1) : candidates[j].id # winner_id
    ELSE 1

\* _generate_ab_test from the lookup of the winner to its end.  Its local list is
\* the object scene_node.candidates names until a reroll gives the node a new
\* list; after a reroll the selected flag lands on an object of the old list.
AbPromote ==
    /\ pc = "ab_promote"
    /\ LET k == PromotedIndex(ab.candidates, ab.winner)
           selected == ab.candidates[k]
           marked == [ab.candidates EXCEPT ![k].selected = TRUE]
       IN
       /\ scene_files' = [scene_files EXCEPT ![StandardPath(Node.id)] =
                             scene_files[selected.content_path]]
       /\ state' = [state EXCEPT
                       !.scenes.nodes[ab.node].candidates =
                           IF ab.rerolls = 0 THEN marked ELSE @,
                       !.scenes.nodes[ab.node].selected_candidate_id = ab.winner,
                       !.scenes.nodes[ab.node].content_path = StandardPath(Node.id),
                       !.scenes.nodes[ab.node].status = "done"]
       /\ ab' = [ab EXCEPT !.candidates = marked]
    /\ pc' = "post"
    /\ UNCHANGED <<disk, intact, files, interactive, hitl, runs, last, cfg, tasks>>

\* _process_scene_recursive after process_scene returned: the summary from
\* analyze_scene (which catches its own errors), state.save(), the archive
\* check, and the return to the loop of run_drafting_loop.
PostProcess ==
    /\ pc = "post"
    /\ LET st1 == [state EXCEPT !.scenes.nodes[ab.node].summary = "scene"]
           st2 == _consolidate_memory(st1, Node.id)
       IN LoopAdvance(st2, TRUE)
    /\ UNCHANGED <<files, interactive, hitl, runs, cfg, scene_files, tasks>>

\* A run whose scene plan was finalized from text, which stands at DRAFTING with
\* every scene pending.
PlannedState(text) ==
    [OutlinedState EXCEPT
        !.step = "drafting",
        !.scene_plan_path = SelectedFile("scene_plan"),
        !.scene_plan_candidates =
            <<[ArtifactCandidate(1, text) EXCEPT !.selected = TRUE]>>,
        !.scenes = _parse_scene_plan_text(text)]

InitDraft ==
    /\ \E text \in Texts("scene_plan") : state = PlannedState(text)
    /\ disk = save(state)
    /\ files = [OutlinedFiles EXCEPT
                   !["scene_plan"] =
                       [exists |-> TRUE, content |-> state.scene_plan_candidates[1].content]]
    /\ intact = TRUE
    /\ interactive \in BOOLEAN
    /\ pc = "idle"
    /\ hitl = NoHitl
    /\ runs = 0
    /\ last = "loaded"
    /\ cfg \in [branching : BOOLEAN, auto_polish : {FALSE}]
    /\ scene_files = NoSceneFiles
    /\ tasks = <<>>
    /\ ab = NoAb

NextDraft ==
    \/ \E force, auto_mode \in BOOLEAN : RunDraftingLoop(force, auto_mode)
    \/ ProcessSceneEnter
    \/ GenerateSingle
    \/ \E cid \in 1..num_candidates : TaskDone(cid)
    \/ AbCollect
    \/ AbReroll
    \/ AbRerollCollect
    \/ \E idx \in 1..num_candidates : AbRevise(idx)
    \/ \E idx \in 1..num_candidates : AbSelect(idx)
    \/ AbPromote
    \/ PostProcess
    \/ Resume

SpecDraft == InitDraft /\ [][NextDraft]_vars

\* The plan of n scenes without branches: every scene is a first-level heading,
\* followed by its summary line unless it is in blank.
RECURSIVE FlatText(_, _)
FlatText(n, blank) ==
    IF n = 0 THEN <<>>
    ELSE FlatText(n - 1, blank) \o (IF n \in blank THEN <<1>> ELSE <<1, 0>>)

\* What _parse_scene_plan_text makes of FlatText(n, blank): every scene is in the
\* root list and none has a branch.
FlatScenes(n, blank) ==
    [roots |-> [k \in 1..n |-> k],
     nodes |-> [k \in 1..n |->
                  [SceneNode(k, 0) EXCEPT !.summary = IF k \in blank THEN "" ELSE "plan"]]]

\* The scenes without a summary: none, any one, or the whole first batch.
BlankSets == {{}} \cup {{k} : k \in 1..ChainLen} \cup {1..archive_batch_size}

\* A call self._consolidate_memory(sid) of the driver; the state is saved when an
\* entry was appended.
DriverConsolidate(sid) ==
    /\ pc = "idle"
    /\ LET st == _consolidate_memory(state, sid) IN
       /\ state' = st
       /\ IF st # state THEN Saved(st) ELSE UNCHANGED <<disk, intact>>
       /\ last' = IF st # state THEN "archived" ELSE "in_window"
    /\ ab' = [NoAb EXCEPT !.node = sid]
    /\ UNCHANGED <<files, interactive, pc, hitl, runs, cfg, scene_files, tasks>>

\* The driver's archive checks on plans of ChainLen scenes, flat or chained.
SpecDriver ==
    /\ \/ \E blank \in BlankSets :
             InitParsed(ParsedState(FlatText(ChainLen, blank), FlatScenes(ChainLen, blank)))
       \/ InitChain
    /\ [][\E sid \in 1..ChainLen : DriverConsolidate(sid)]_vars

\* MemoryManager.consolidate_memory with its defaults on flat plans.
SpecFlat ==
    /\ \E blank \in BlankSets :
          InitParsed(ParsedState(FlatText(ChainLen, blank), FlatScenes(ChainLen, blank)))
    /\ [][NextChain]_vars

(***************************************************************************)
(* core/manager.py: run_review; core/workflow.py: run_polish_cycle         *)
(***************************************************************************)

\* The root scenes, which is what iterating self.state.scenes visits.
RootNode(st, i) == st.scenes.nodes[st.scenes.roots[i]]

\* The text run_polish_cycle saves for a scene whose text was text.
Polished(text) == Append(text, 2)

\* _is_step_executed("review"): a done root scene has a polished json.
ReviewExecuted(st, sf) ==
    \E i \in 1..Len(st.scenes.roots) :
        RootNode(st, i).status = "done" /\ sf[PolishedPath(RootNode(st, i).id)].exists

\* _reset_review on the state: the content_path of every root scene that points
\* into 06_polishing is cleared; the status stays done.
_reset_review(st) ==
    [st EXCEPT !.scenes.nodes =
        [k \in 1..Len(@) |->
            IF /\ \E i \in 1..Len(st.scenes.roots) : st.scenes.roots[i] = k
               /\ @[k].content_path # <<>>
               /\ @[k].content_path[1] = "06_polishing"
            THEN [@[k] EXCEPT !.content_path = <<>>] ELSE @[k]]]

\* _reset_review on the files: shutil.rmtree of 06_polishing.
RemovePolished(sf) ==
    [p \in ScenePaths |-> IF p[1] = "06_polishing" THEN NoFile ELSE sf[p]]

\* self.fsm.transition_to(fsm_lib.ProjectPhase.EXPORT): the lookup of the member
\* raises AttributeError before transition_to is called.
ToExport ==
    /\ ~HasPhaseAttr("export")
    /\ RaiseDraft("AttributeError: export")

\* ProjectManager.run_review(force) up to the submission of one run_polish_cycle
\* task for every done root scene that has a file; rewrite is the operator's
\* answer to _prompt_rewrite.
run_review(force, rewrite) ==
    /\ LET executed == ReviewExecuted(state, scene_files)
           proceed  == force \/ ~executed \/ rewrite
           doReset  == ~force /\ executed /\ rewrite
       IN
       IF ~proceed
       THEN /\ ToExport
            /\ UNCHANGED <<state, disk, intact, scene_files, tasks>>
       ELSE LET st1 == IF doReset THEN _reset_review(state) ELSE state
                sf1 == IF doReset THEN RemovePolished(scene_files) ELSE scene_files
                r   == transition_to(st1, "review", TRUE)
                valid_scenes ==
                    {i \in 1..Len(st1.scenes.roots) :
                        /\ RootNode(st1, i).status = "done"
                        /\ \/ /\ RootNode(st1, i).content_path # <<>>
                              /\ sf1[RootNode(st1, i).content_path].exists
                           \/ sf1[StandardPath(RootNode(st1, i).id)].exists}
            IN
            /\ state' = r.state
            /\ Saved(r.state)
            /\ scene_files' = sf1
            /\ IF valid_scenes = {}
               THEN /\ ToExport
                    /\ UNCHANGED tasks
               ELSE /\ tasks' = [i \in 1..Len(st1.scenes.roots) |->
                                    IF i \in valid_scenes THEN "running" ELSE "none"]
                    /\ pc' = "review_tasks"
                    /\ last' = "running"
    /\ UNCHANGED <<files, interactive, hitl, cfg, ab>>

\* One call of run_review by the operator's command.
RunReview(force, rewrite) ==
    /\ pc = "idle"
    /\ runs < MaxRuns
    /\ runs' = runs + 1
    /\ run_review(force, rewrite)

\* One submitted run_polish_cycle(scene) task ends in its worker thread.  It
\* returns False when auto_polish is off, when no file is found or when the text
\* is empty; a provider error makes it raise; else it writes the polished file.
\* The fallback and the last statement assign scene_node.content_path.
PolishTask(i) ==
    /\ pc = "review_tasks"
    /\ i \in DOMAIN tasks
    /\ tasks[i] = "running"
    /\ LET n    == state.scenes.roots[i]
           node == state.scenes.nodes[n]
           fallback_path == StandardPath(node.id)
           missing == node.content_path = <<>> \/ ~scene_files[node.content_path].exists
           path == IF missing THEN fallback_path ELSE node.content_path
           st1  == [state EXCEPT !.scenes.nodes[n].content_path = path]
       IN
       IF ~cfg.auto_polish \/ (missing /\ ~scene_files[fallback_path].exists)
       THEN /\ tasks' = [tasks EXCEPT ![i] = "skipped"]
            /\ UNCHANGED <<state, scene_files>>
       ELSE IF scene_files[path].content = <<>>
       THEN /\ tasks' = [tasks EXCEPT ![i] = "skipped"]
            /\ state' = st1
            /\ UNCHANGED scene_files
       ELSE \/ /\ tasks' = [tasks EXCEPT ![i] = "failed"]
               /\ state' = st1
               /\ UNCHANGED scene_files
            \/ /\ tasks' = [tasks EXCEPT ![i] = "ok"]
               /\ scene_files' = [scene_files EXCEPT ![PolishedPath(node.id)] =
                                     [exists |-> TRUE,
                                      content |-> Polished(scene_files[path].content)]]
               /\ state' = [st1 EXCEPT !.scenes.nodes[n].content_path =
                                           PolishedPath(node.id)]
    /\ UNCHANGED <<disk, intact, files, interactive, pc, hitl, runs, last, cfg, ab>>

\* run_review after the with block: state.save() when a scene was polished, then
\* the move to EXPORT.
ReviewJoin ==
    /\ pc = "review_tasks"
    /\ Joined
    /\ IF Succeeded # {} THEN Saved(state) ELSE UNCHANGED <<disk, intact>>
    /\ ToExport
    /\ UNCHANGED <<state, files, interactive, hitl, runs, cfg, scene_files, tasks, ab>>

\* The state after _process_scene_recursive has drafted the first n root scenes
\* of st one after the other: each has its context stashed, is done with its
\* file and has the summary of analyze_scene.
RECURSIVE DraftedUpTo(_, _, _, _)
DraftedUpTo(st, fs, variant, n) ==
    IF n = 0 THEN st
    ELSE LET prev == DraftedUpTo(st, fs, variant, n - 1)
             k    == prev.scenes.roots[n]
             node == prev.scenes.nodes[k]
         IN
         [prev EXCEPT !.scenes.nodes[k] =
             [node EXCEPT !.meta = Stash(node.meta, build(prev, fs, node.id).payload),
                          !.status = "done",
                          !.summary = "scene",
                          !.content_path = IF variant = "reviewed"
                                           THEN PolishedPath(node.id)
                                           ELSE StandardPath(node.id)]]

\* The state a drafting loop without branching leaves: every root scene done with
\* its standard file; "empty" when the provider answered the first scene with an
\* empty text, "reviewed" when a review has polished the scenes since.
DraftedState(text, variant) ==
    LET st == PlannedState(text)
        fs == [OutlinedFiles EXCEPT !["scene_plan"] = [exists |-> TRUE, content |-> text]]
    IN
    [DraftedUpTo(st, fs, variant, Len(st.scenes.roots)) EXCEPT !.step = "review"]

DraftedFiles(st, variant) ==
    [p \in ScenePaths |->
        IF \E i \in 1..Len(st.scenes.roots) : p = StandardPath(RootNode(st, i).id)
        THEN [exists |-> TRUE,
              content |-> IF variant = "empty" /\ p = StandardPath(RootNode(st, 1).id)
                          THEN <<>> ELSE Draft(0, 1)]
        ELSE IF variant = "reviewed"
                /\ \E i \in 1..Len(st.scenes.roots) : p = PolishedPath(RootNode(st, i).id)
        THEN [exists |-> TRUE, content |-> Polished(Draft(0, 1))]
        ELSE NoFile]

InitReview ==
    /\ \E text \in Texts("scene_plan"), variant \in {"drafted", "empty", "reviewed"} :
          /\ state = DraftedState(text, variant)
          /\ scene_files = DraftedFiles(state, variant)
          /\ cfg \in [branching : {FALSE}, auto_polish : IF variant = "reviewed"
                                                         THEN {TRUE} ELSE BOOLEAN]
    /\ disk = save(state)
    /\ files = [OutlinedFiles EXCEPT
                   !["scene_plan"] =
                       [exists |-> TRUE, content |-> state.scene_plan_candidates[1].content]]
    /\ intact = TRUE
    /\ interactive \in BOOLEAN
    /\ pc = "idle"
    /\ hitl = NoHitl
    /\ runs = 0
    /\ last = "loaded"
    /\ tasks = <<>>
    /\ ab = NoAb

NextReview ==
    \/ \E force, rewrite \in BOOLEAN : RunReview(force, rewrite)
    \/ \E i \in 1..Cardinality(SceneIds) : PolishTask(i)
    \/ ReviewJoin
    \/ Resume

SpecReview == InitReview /\ [][NextReview]_vars

(***************************************************************************)
(* pipeline/step_05_qc.py: QCStep.run, and the status of a scene           *)
(***************************************************************************)

\* QCStep.run: the scenes of the state, when the caller's context holds one, are
\* looked up by the name of their scene file; a done root scene whose file gets
\* the verdict FAIL goes back to pending, and the state is saved.  failing is the
\* set of scene ids whose files fail; the orchestrator passes no state.
QCRun(with_state, failing) ==
    /\ pc = "idle"
    /\ IF with_state
       THEN /\ state' = [state EXCEPT !.scenes.nodes =
                            [k \in DOMAIN @ |->
                                IF /\ \E i \in 1..Len(state.scenes.roots) :
                                          state.scenes.roots[i] = k
                                   /\ @[k].id \in failing
                                   /\ @[k].status = "done"
                                THEN [@[k] EXCEPT !.status = "pending"]
                                ELSE @[k]]]
            /\ Saved(state')
       ELSE UNCHANGED <<state, disk, intact>>
    /\ last' = "qc"
    /\ UNCHANGED <<files, interactive, pc, hitl, runs, cfg, scene_files, tasks, ab>>

\* A headless run that is resumed at DRAFTING with its first n root scenes drafted, and
\* the scene files it finds: the standard files of the drafted scenes, except
\* those of the scenes in missing, which are gone from the run directory.
InitStatus ==
    /\ \E text \in Texts("scene_plan") :
       \E n \in 0..Len(PlannedState(text).scenes.roots) :
          /\ state = DraftedUpTo(PlannedState(text),
                                 [OutlinedFiles EXCEPT
                                     !["scene_plan"] = [exists |-> TRUE, content |-> text]],
                                 "drafted", n)
          /\ \E missing \in SUBSET {state.scenes.nodes[state.scenes.roots[i]].id : i \in 1..n} :
                scene_files =
                    [p \in ScenePaths |->
                        IF \E i \in 1..n :
                              /\ p = StandardPath(state.scenes.nodes[state.scenes.roots[i]].id)
                              /\ state.scenes.nodes[state.scenes.roots[i]].id \notin missing
                        THEN [exists |-> TRUE, content |-> Draft(0, 1)]
                        ELSE NoFile]
    /\ disk = save(state)
    /\ files = [OutlinedFiles EXCEPT
                   !["scene_plan"] =
                       [exists |-> TRUE, content |-> state.scene_plan_candidates[1].content]]
    /\ intact = TRUE
    /\ interactive = FALSE
    /\ pc = "idle"
    /\ hitl = NoHitl
    /\ runs = 0
    /\ last = "loaded"
    /\ cfg \in [branching : BOOLEAN, auto_polish : {FALSE}]
    /\ tasks = <<>>
    /\ ab = NoAb

\* Headless drafting runs with quality checks between them.
SpecStatus ==
    /\ InitStatus
    /\ [][\/ \E force, auto_mode \in BOOLEAN : RunDraftingLoop(force, auto_mode)
          \/ ProcessSceneEnter
          \/ GenerateSingle
          \/ \E cid \in 1..num_candidates : TaskDone(cid)
          \/ AbCollect
          \/ AbPromote
          \/ PostProcess
          \/ \E with_state \in BOOLEAN, failing \in SUBSET SceneIds : QCRun(with_state, failing)]_vars

(***************************************************************************)
(* The phase state machine                                                 *)
(***************************************************************************)

\* C1: in every state the program reaches and for every target phase,
\* can_transition(target) is true exactly when target is in the TRANSITIONS entry
\* of the current phase, and transition_to(target) without force raises the
\* illegal-transition error exactly for the targets that are not in it.
C1_TableDecidesTransitions ==
    \A t \in ProjectPhase :
        /\ can_transition(state, t) <=> (t \in TRANSITIONS[state.step])
        /\ transition_to(state, t, FALSE).raised <=> (t \notin TRANSITIONS[state.step])

\* An unforced transition_to to a phase outside the table has been called.
C1_Witness == pc = "raised" /\ last = "IllegalTransition" /\ runs = 0

\* C2: in every state the program reaches and for every target phase,
\* transition_to(target, force=True) does not raise, leaves state.step equal to
\* the target and saves a snapshot whose step is the target; and every step of the
\* program that ends a transition with success leaves memory and snapshot on the
\* same phase.
C2_ForcedTransitionSucceeds ==
    /\ \A t \in ProjectPhase :
          LET r == transition_to(state, t, TRUE) IN
          ~r.raised /\ r.written /\ r.state.step = t /\ save(r.state).step = t
    /\ (last = "ok") => (intact /\ disk.step = state.step)

\* A forced transition the table does not allow has succeeded: no table entry
\* holds INIT, so only a forced transition_to leads there.
C2_Witness == last = "ok" /\ state.step = "init" /\ disk.step = "init"

\* C3: a rejected unforced transition (transition_to raising, rollback refusing)
\* leaves the in-memory state and the snapshot exactly as they were.
C3_RejectedTransitionChangesNothing ==
    [][(last' \in {"IllegalTransition", "refused"}) =>
          (state' = state /\ disk' = disk /\ intact' = intact /\ files' = files)]_vars

\* rollback has refused a target the table does not allow from the current phase.
C3_Witness == last = "refused" /\ state.step = disk.step /\ state.step # "init"

\* C4: every phase the driver dispatches on or a handler transitions to, EXPORT
\* included, is a member of the ProjectPhase enumeration and has an entry in
\* TRANSITIONS; at the least, no operation has failed looking such a phase up.
C4_UsedPhasesAreEnumMembers ==
    \A p \in PhasesUsed :
        \/ HasPhaseAttr(p) /\ p \in DOMAIN TRANSITIONS
        \/ last # "AttributeError: " \o p

\* C5: the phase change and its persistence are one step: in every state that
\* something can observe, also after a save that failed, the snapshot is readable
\* and records the in-memory phase.
C5_PhaseAndSnapshotAgree == intact /\ state.step = disk.step

\* C6: manager.rollback and transition_to change only the phase pointer: every
\* other field of the state (artifact paths, candidate lists, scene tree, archive
\* list and cursor), of the snapshot, and every artifact file is unchanged.
\* The steps of Rollback and TransitionTo are the steps from an idle manager that
\* start no handler and end with one of these outcomes.
C6_RollbackChangesOnlyPhase ==
    [][(pc = "idle" /\ runs' = runs
          /\ last' \in {"ok", "refused", "invalid_name", "IllegalTransition"}) =>
             /\ [state' EXCEPT !.step = state.step] = state
             /\ [disk' EXCEPT !.step = disk.step] = disk
             /\ files' = files]_vars

\* A rollback from OUTLINE to IDEATION has succeeded on a project that has its
\* idea and outline artifacts, candidates and files.
C6_Witness ==
    /\ last = "ok" /\ state.step = "ideation" /\ disk.step = "ideation"
    /\ state.outline_path # "" /\ state.outline_candidates # <<>>
    /\ files["outline"].exists

\* C7: every 'back_to_<phase>' action get_available_actions lists names a phase
\* can_transition accepts from the current phase; DONE lists none.
C7_BackActionsAreTransitions ==
    \A i \in DOMAIN get_available_actions(state) :
        \A p \in ProjectPhase :
            (get_available_actions(state)[i] = "back_to_" \o p) =>
                can_transition(state, p)

\* C8: when run_step_with_hitl has returned, exactly one candidate of the step has
\* selected = true, and it is the returned one.
C8_ExactlyOneSelected ==
    (pc = "finalize") =>
        \A i \in 1..Len(Cands) : Cands[i].selected <=> (i = hitl.ret)

\* C9: run_step_with_hitl never prompts the operator over an empty candidate
\* list: a generation that yields no candidates, at entry or on a reroll, raises.
C9_NeverPromptsOverNothing ==
    (pc = "hitl_prompt") => (Cands # <<>>)

\* C10: generate_fn is called at entry exactly when the step has no cached
\* candidates, and the candidates in memory are the ones the snapshot holds
\* before the first prompt or selection.
C10_GenerateIffNoCache ==
    (pc \in {"hitl_check", "hitl_prompt", "hitl_final", "finalize"}) =>
        /\ hitl.entry_gen = (IF hitl.cached THEN 0 ELSE 1)
        /\ (pc = "hitl_check") =>
               (intact /\ disk[CandField(hitl.step)] = AsDict(Cands))

\* Fresh candidates were generated at entry and the operator is being prompted.
C10_Witness ==
    pc = "hitl_prompt" /\ ~hitl.cached /\ hitl.entry_gen = 1 /\ Cands # <<>>

(***************************************************************************)
(* Headless selection                                                      *)
(***************************************************************************)

\* C11: in headless mode run_step_with_hitl never prompts the operator, and on
\* every non-empty candidate list it returns the candidate at index 0 instead of
\* failing on the list.
C11_HeadlessReturnsFirst ==
    ~interactive =>
        /\ pc # "hitl_prompt"
        /\ (pc \in {"hitl_final", "finalize"}) => (hitl.ret = 1 /\ Cands[1].selected)
        /\ last # "AttributeError: dict"

(***************************************************************************)
(* Claims about branching generation (SpecDraft)                           *)
(***************************************************************************)

\* The generation round that ended last had a task that returned and a task that
\* raised.
Mixed ==
    /\ tasks # <<>>
    /\ Joined
    /\ Succeeded # {}
    /\ \E c \in DOMAIN tasks : tasks[c] = "failed"

\* C12: in branching mode, when the num_candidates > 1 concurrent generation tasks
\* of a round ended with at least one success and at least one failure, whatever
\* the order of completion, process_scene does not raise, the node becomes done,
\* and the promoted winner is a task of that round that succeeded: the content at
\* the canonical path is the content that task wrote.
C12_WinnerAmongSurvivors ==
    (cfg.branching /\ Mixed) =>
        /\ last \notin {"RuntimeError: all candidates failed",
                         "RuntimeError: reroll produced no candidates"}
        /\ (pc = "post") =>
               /\ Node.status = "done"
               /\ \E c \in Succeeded :
                      /\ Node.selected_candidate_id = c
                      /\ scene_files[StandardPath(Node.id)] =
                             scene_files[CandPath(Node.id, c)]

C14_OneWinnerPromoted ==
    (pc = "post" /\ cfg.branching) =>
        \E k \in 1..Len(Node.candidates) :
            /\ Node.candidates[k].selected
            /\ \A j \in 1..Len(Node.candidates) : j # k => ~Node.candidates[j].selected
            /\ Node.selected_candidate_id = Node.candidates[k].id
            /\ scene_files[StandardPath(Node.id)] =
                   scene_files[Node.candidates[k].content_path]

\* The output location of the running task c: the polished file of its scene, or
\* the file of its candidate.
Owned(c) ==
    IF pc = "review_tasks" THEN PolishedPath(RootNode(state, c).id)
    ELSE CandPath(Node.id, c)

\* C15: while worker tasks run concurrently (candidate generation, reroll, the
\* parallel polish pass), a task writes only to its own output location, which is
\* the location of no other task, and no step changes ProjectState or a SceneNode:
\* these are updated only after all tasks have joined.  (A step that ends with
\* last = "loaded" is the start of a new process, not a step of the tasks'.)
C15_TasksShareNothing ==
    [][(~Joined /\ last' # "loaded") =>
          /\ state' = state
          /\ \A c, d \in DOMAIN tasks :
                 (c # d /\ tasks[c] # "none" /\ tasks[d] # "none") => Owned(c) # Owned(d)
          /\ \A p \in ScenePaths :
                 scene_files'[p] # scene_files[p] =>
                    \E c \in DOMAIN tasks :
                        tasks[c] = "running" /\ tasks'[c] # "running" /\ p = Owned(c)]_vars

\* C16: in every reachable state, every scene node whose status is done has a
\* content path that names an existing file whose content is not empty.
C16_DoneHasContent ==
    \A k \in 1..Len(state.scenes.nodes) :
        LET node == state.scenes.nodes[k] IN
        node.status = "done" =>
            /\ node.content_path # <<>>
            /\ scene_files[node.content_path].exists
            /\ scene_files[node.content_path].content # <<>>

(***************************************************************************)
(* Claims about the scene tree and the memory manager                      *)
(***************************************************************************)

\* How often the node object k is held by the root list and by branch lists.
Holders(scenes, k) ==
    Cardinality({i \in 1..Len(scenes.roots) : scenes.roots[i] = k})
    + Cardinality({<<p, i>> \in (1..Len(scenes.nodes)) \X (1..Len(scenes.nodes)) :
                      /\ i \in 1..Len(scenes.nodes[p].branches)
                      /\ scenes.nodes[p].branches[i] = k})

\* The node objects reached from S through at most n branch steps.
RECURSIVE Descendants(_, _, _)
Descendants(scenes, S, n) ==
    IF n = 0 THEN S
    ELSE Descendants(scenes,
             S \cup UNION {{scenes.nodes[p].branches[i] :
                               i \in 1..Len(scenes.nodes[p].branches)} : p \in S},
             n - 1)

IsTree(scenes) ==
    LET N == 1..Len(scenes.nodes)
        Roots == {scenes.roots[i] : i \in 1..Len(scenes.roots)}
    IN
    /\ \A j, k \in N : j # k => scenes.nodes[j].id # scenes.nodes[k].id
    /\ \A k \in N : Holders(scenes, k) = 1
    /\ \A k \in Roots : scenes.nodes[k].parent_id = 0
    /\ \A p \in N : \A i \in 1..Len(scenes.nodes[p].branches) :
           scenes.nodes[scenes.nodes[p].branches[i]].parent_id = scenes.nodes[p].id
    /\ Descendants(scenes, Roots, Len(scenes.nodes)) = N

\* C17: for every scene-plan text, the tree init_scenes builds from it has
\* globally unique node ids, holds every node in exactly one place (the root list
\* or one parent's branch list), gives each branch node the id of the holding node
\* as parent_id and each root none, and has no cycle (every node is reached from
\* a root).
C17_ParsedPlanIsTree == IsTree(state.scenes)

C17_Witness ==
    /\ last = "finalized"
    /\ Len(state.scenes.nodes) = 3
    /\ Len(state.scenes.roots) = 1
    /\ \E k \in 1..3 : state.scenes.nodes[k].level = 2 /\ state.scenes.nodes[k].parent_id = 2

\* C18: for every scene tree and target id, get_linear_path returns the empty list
\* when no node has that id, and otherwise a list that starts at a root, in which
\* every next element is a branch child of the one before, and whose last
\* element has the target id.
C18_LinearPathEndsAtTarget ==
    \A target \in 0..(Len(state.scenes.nodes) + 1) :
        LET scenes == state.scenes
            path == get_linear_path(scenes, target)
        IN
        IF \A k \in 1..Len(scenes.nodes) : scenes.nodes[k].id # target
        THEN path = <<>>
        ELSE /\ path # <<>>
             /\ \E i \in 1..Len(scenes.roots) : scenes.roots[i] = path[1]
             /\ \A i \in 2..Len(path) :
                    \E j \in 1..Len(scenes.nodes[path[i - 1]].branches) :
                        scenes.nodes[path[i - 1]].branches[j] = path[i]
             /\ scenes.nodes[path[Len(path)]].id = target

C18_Witness ==
    /\ last = "archived"
    /\ ab.node = 2
    /\ Len(get_linear_path(state.scenes, 2)) = 2

\* C19: consolidate_memory(current_id, window_size, batch_size) changes nothing
\* when depth - archive_cursor < window_size; otherwise it appends exactly one
\* entry to the archive list, which folds the nodes at the path positions
\* [archive_cursor, archive_cursor + batch_size), advances the cursor by exactly
\* batch_size and saves the state, also when some or all of these nodes have no
\* summary.
C19_ConsolidateFoldsOneBatch ==
    [][\A id \in 1..(MaxLen + 1), window \in 1..MaxLen, batch \in 1..MaxLen :
          ConsolidateMemory(id, window, batch) =>
             LET path   == get_linear_path(state.scenes, id)
                 cursor == state.last_archived_depth
                 folded == Slice(path, cursor, cursor + batch)
             IN
             IF Len(path) - cursor < window
             THEN state' = state /\ disk' = disk
             ELSE /\ Len(state'.archived_summaries) = Len(state.archived_summaries) + 1
                  /\ \A i \in 1..Len(state.archived_summaries) :
                         state'.archived_summaries[i] = state.archived_summaries[i]
                  /\ \A i \in 1..Len(folded) :
                         state.scenes.nodes[folded[i]].summary # "" =>
                            \E j \in 1..Len(state'.archived_summaries[Len(state'.archived_summaries)]) :
                                state'.archived_summaries[Len(state'.archived_summaries)][j]
                                    = state.scenes.nodes[folded[i]].id
                  /\ state'.last_archived_depth = cursor + batch
                  /\ disk' = save(state')]_vars

\* The archive entry that folds the scenes at depths from..to of the chain.
ChainEntry(from, to) ==
    SelectSeq([i \in 1..(to - from + 1) |-> from + i - 1],
              LAMBDA k : state.scenes.nodes[k].summary # "")

\* C20: with window_size 10 and batch_size 5 on a linear chain of scenes 1..20,
\* the call at depth 10 archives depths 1-5, the call at depth 20 that follows it
\* archives depths 6-10, each call that archives adds exactly one entry, and a
\* call repeated at once at the same depth (10, 12 or 20) changes neither the
\* archive list nor the cursor.
C20_WindowOnChain ==
    [][LET depth  == ab'.node
           cursor == state.last_archived_depth
       IN
       /\ (depth = 10 /\ cursor = 0) =>
              /\ state'.archived_summaries = <<ChainEntry(1, 5)>>
              /\ state'.last_archived_depth = 5
       /\ (depth = 20 /\ ab.node = 10 /\ cursor = 5) =>
              /\ state'.archived_summaries = <<ChainEntry(1, 5), ChainEntry(6, 10)>>
              /\ state'.last_archived_depth = 10
       /\ state'.archived_summaries # state.archived_summaries =>
              Len(state'.archived_summaries) = Len(state.archived_summaries) + 1
       /\ (depth \in {10, 12, 20} /\ ab.node = depth) =>
              /\ state'.archived_summaries = state.archived_summaries
              /\ state'.last_archived_depth = state.last_archived_depth]_vars

(***************************************************************************)
(* The archive cursor                                                      *)
(***************************************************************************)

\* C21: across any sequence of consolidate_memory calls with positive
\* window_size and batch_size, the archive cursor (last_archived_depth) never
\* decreases, and a call that moves it never moves it past the depth of the scene
\* the call was made for.
C21_CursorWithinDepth ==
    [][/\ state'.last_archived_depth >= state.last_archived_depth
       /\ state'.last_archived_depth # state.last_archived_depth =>
              state'.last_archived_depth <= Len(get_linear_path(state.scenes, ab'.node))]_vars

\* The scene ids that archive entry e folds.
Folded(e) == {e[j] : j \in 1..Len(e)}

\* C22: a run that is saved and reloaded between two consolidate_memory calls
\* archives as the uninterrupted run does: the archive cursor in effect after a
\* reload equals the cursor before it, and no scene is folded into two archive
\* entries.
C22_CursorSurvivesReload ==
    /\ [][last' = "loaded" => state'.last_archived_depth = state.last_archived_depth]_vars
    /\ [](\A i, j \in 1..Len(state.archived_summaries) :
              i # j => Folded(state.archived_summaries[i])
                           \cap Folded(state.archived_summaries[j]) = {})

(***************************************************************************)
(* The snapshot                                                            *)
(***************************************************************************)

\* C23: loading the snapshot that save writes gives a state equal to the saved
\* one in the phase, the artifact paths, the idea, outline, bible and scene plan
\* candidate lists (candidate objects with their selected flags), the scene tree
\* with the candidates of every node, and the archive list.
C23_LoadRestoresSaved ==
    \A fld \in {"step", "idea_path", "outline_path", "bible_path", "scene_plan_path",
                "idea_candidates", "outline_candidates", "bible_candidates",
                "scene_plan_candidates", "scenes", "archived_summaries"} :
        load(save(state))[fld] = state[fld]

\* C24: the snapshot is overwritten atomically: when the process stops at any
\* point of save, state.json holds the complete previous snapshot or the complete
\* new one, never an empty or partial record, so that a load succeeds.
C24_SnapshotNeverPartial ==
    (last = "stopped") => intact

\* C25: a save follows every change of the state before the next generation
\* call or prompt: once process_scene has marked a node done, with its content
\* path and selected candidate, the snapshot records it before analyze_scene is
\* called, so that a resume from the snapshot knows every completed scene.
C25_DoneIsSavedBeforeAnalysis ==
    (pc = "post") =>
        \A k \in 1..Len(state.scenes.nodes) :
            state.scenes.nodes[k].status = "done" =>
                /\ intact
                /\ disk.scenes.nodes[k].status = "done"
                /\ disk.scenes.nodes[k].content_path = state.scenes.nodes[k].content_path
                /\ disk.scenes.nodes[k].selected_candidate_id
                       = state.scenes.nodes[k].selected_candidate_id

(***************************************************************************)
(* The context of a scene                                                  *)
(***************************************************************************)

\* The parts of the recency block of payload p.
Parts(p) == {p.prev_context[i].part : i \in 1..Len(p.prev_context)}

\* The summaries the recency block of scene id is to list: of the scenes of the
\* root list and of the path to the scene whose id lies strictly between the
\* archive cursor and id, by ascending id.
ExpectedRecent(st, id) ==
    LET path  == get_linear_path(st.scenes, id)
        nodes == {st.scenes.nodes[st.scenes.roots[i]] : i \in 1..Len(st.scenes.roots)}
                     \cup {st.scenes.nodes[path[i]] : i \in 1..Len(path)}
        has(sid) == \E n \in nodes : n.id = sid /\ n.summary # ""
        sids  == [i \in 1..(id - 1) |-> i]
    IN  SelectSeq(sids, LAMBDA sid : st.last_archived_scene_id < sid /\ has(sid))

\* C26: build(scene_id) returns the story-start marker as the recency block
\* exactly when the archive list is empty and no scene before the target has a
\* summary to contribute; for scene 1 with an empty archive it always does; and
\* the marker never comes together with archived or recent summaries.
C26_MarkerIffNothingBefore ==
    \A k \in 1..Len(state.scenes.nodes) :
        LET id == state.scenes.nodes[k].id
            p  == build(state, files, id).payload
        IN
        /\ ("opening" \in Parts(p)) <=>
               (state.archived_summaries = <<>> /\ ExpectedRecent(state, id) = <<>>)
        /\ (id = 1 /\ state.archived_summaries = <<>>) => "opening" \in Parts(p)
        /\ "opening" \in Parts(p) => Len(p.prev_context) = 1

\* The size of payload p: its keys, the lines and parts of its texts, and its
\* scene metadata with whatever is nested in it.
RECURSIVE PayloadSize(_)
PayloadSize(p) ==
    Cardinality(DOMAIN p) + Len(p.idea) + Len(p.outline) + Len(p.bible)
        + Len(p.prev_context) + Cardinality(DOMAIN p.scene_meta)
        + (IF "dynamic_context" \in DOMAIN p.scene_meta
           THEN PayloadSize(p.scene_meta.dynamic_context) ELSE 0)

\* C27: however often build is called on a node whose metadata holds the payload
\* of the build before under "dynamic_context", the scene metadata of the payload
\* never has that key, the payload is no larger than the one before, and build
\* leaves the node's metadata as it was.
C27_PayloadDoesNotGrow ==
    \A k \in 1..Len(state.scenes.nodes) :
        LET node == state.scenes.nodes[k]
            r    == build(state, files, node.id)
        IN
        /\ "dynamic_context" \notin DOMAIN r.payload.scene_meta
        /\ r.meta = node.meta
        /\ "dynamic_context" \in DOMAIN node.meta =>
               PayloadSize(Stash(r.meta, r.payload).dynamic_context)
                   <= PayloadSize(node.meta.dynamic_context)

\* A context was built and stashed, and building it again gives the same
\* payload.
C27_Witness ==
    /\ last = "built"
    /\ \E k \in 1..Len(state.scenes.nodes) :
           LET node == state.scenes.nodes[k] IN
           /\ "dynamic_context" \in DOMAIN node.meta
           /\ Stash(node.meta, build(state, files, node.id).payload) = node.meta

\* C28: the recency block of build(scene_id) is the archived summaries, oldest
\* first, followed by the summaries of exactly the scenes strictly between the
\* archive cursor and scene_id by ascending id, be they roots or branch children
\* on the path to the target.
C28_RecencyBlock ==
    \A k \in 1..Len(state.scenes.nodes) :
        LET id  == state.scenes.nodes[k].id
            p   == build(state, files, id).payload
            exp == ExpectedRecent(state, id)
            archived == IF state.archived_summaries = <<>> THEN <<>>
                        ELSE <<[part |-> "archived", items |-> state.archived_summaries]>>
            found == SelectSeq(p.prev_context, LAMBDA x : x.part = "recent")
        IN
        /\ SelectSeq(p.prev_context, LAMBDA x : x.part = "archived") = archived
        /\ SubSeq(p.prev_context, 1, Len(archived)) = archived
        /\ IF exp = <<>> THEN found = <<>>
           ELSE /\ Len(found) = 1
                /\ [i \in 1..Len(found[1].items) |-> found[1].items[i][1]] = exp

UpstreamMissing(st, s) ==
    \/ s = "outline" /\ st.idea_path = ""
    \/ s \in {"bible", "scene_plan"} /\ st.outline_path = ""

\* C30: a handler whose upstream artifact is missing (run_outline without an idea,
\* run_bible and init_scenes without an outline) notifies and returns: it starts
\* no generation, creates no candidates and no selected file and does not set
\* the artifact path of its phase; and no generation of a step runs while its
\* upstream artifact is missing.  The steps in question are those of a handler
\* that does not skip its phase.
C30_MissingUpstreamAborts ==
    /\ [][(/\ pc = "idle" /\ runs' = runs + 1
            /\ last' \in {"MissingDependency", "running"}
            /\ UpstreamMissing(state', state'.step)) =>
             LET s == state'.step IN
             /\ last' = "MissingDependency"
             /\ pc' = "idle"
             /\ hitl' = NoHitl
             /\ state'[CandField(s)] \in {state[CandField(s)], <<>>}
             /\ state'[PathField(s)] \in {state[PathField(s)], ""}
             /\ files'[s] \in {files[s], NoFile}]_vars
    /\ [](hitl.step # "none" => ~UpstreamMissing(state, hitl.step))

\* run_bible was called on a project without an outline and returned.
C30_Witness ==
    /\ last = "MissingDependency"
    /\ state.step = "bible"
    /\ state.outline_path = ""
    /\ state.bible_path = "" /\ state.bible_candidates = <<>>
    /\ pc = "idle"

(***************************************************************************)
(* The status of a scene node                                              *)
(***************************************************************************)

C32_DriverArchivesBatch ==
    [][LET sid    == ab'.node
           cursor == state.last_archived_scene_id
           wanted == [i \in 1..5 |-> cursor + i]
           entry  == SelectSeq(wanted,
                               LAMBDA id : \E k \in DOMAIN state.scenes.nodes :
                                               /\ state.scenes.nodes[k].id = id
                                               /\ state.scenes.nodes[k].summary # "")
       IN
       IF sid - cursor >= 10
       THEN /\ state'.archived_summaries = Append(state.archived_summaries, entry)
            /\ state'.last_archived_scene_id = cursor + 5
       ELSE state' = state]_vars

\* C36: the id cursor mirrors the depth cursor: a consolidate_memory call that
\* archives leaves in last_archived_scene_id the id of the path node at depth
\* last_archived_depth; and on a chain with the ids 1..n, consolidate_memory and
\* the driver's _consolidate_memory called for the same scene leave the same
\* archive list.
C36_IdCursorMirrorsDepthCursor ==
    /\ [][state'.archived_summaries # state.archived_summaries =>
              LET path == get_linear_path(state.scenes, ab'.node) IN
              /\ state'.last_archived_depth <= Len(path)
              /\ state'.last_archived_scene_id
                     = state.scenes.nodes[path[state'.last_archived_depth]].id]_vars
    /\ [](\A sid \in 1..ChainLen :
             consolidate_memory(state, sid, window_size,
                                archive_batch_size).state.archived_summaries
                 = _consolidate_memory(state, sid).archived_summaries)

\* C40: on a plan without branches the k-th scene is at depth k of the path
\* consolidate_memory walks, and with window_size 10 and batch_size 5 the call
\* for the 10th scene archives the first five scenes.
C40_FlatPlanDepth ==
    /\ [][(ab'.node = 10 /\ state.last_archived_depth = 0) =>
              /\ state'.archived_summaries = <<ChainEntry(1, 5)>>
              /\ state'.last_archived_depth = 5]_vars
    /\ [](\A k \in 1..ChainLen : Len(get_linear_path(state.scenes, k)) = k)

\* ---------------------------------------------------------------------------
\* main.py: the auto loop; core/manager.py: execute_next_step
\* ---------------------------------------------------------------------------

\* main.py line 84: manager.fsm.transition_to(target_phase, force=True), the forced
\* starting phase of the auto loop; it happens once, before the loop.  (main's own
\* step_mapping names the missing ProjectPhase.EXPORT, so through main.py the call
\* is reached by no --step value; a caller that holds the manager makes it.)
ForcedStart(target) ==
    /\ last = "new"
    /\ TransitionTo(target, TRUE)

\* execute_next_step at INIT, first half: the unforced transition to IDEATION.
AutoInit ==
    /\ pc = "idle"
    /\ state.step # "done"
    /\ current_phase(state) = "init"
    /\ LET r == transition_to(state, "ideation", FALSE) IN
       /\ Transitioned(r)
       /\ pc' = IF r.raised THEN "raised" ELSE "init_ideation"
       /\ last' = IF r.raised THEN "IllegalTransition" ELSE "running"
    /\ UNCHANGED <<files, interactive, hitl, runs, cfg, scene_files, tasks, ab>>

\* execute_next_step at INIT, second half: run_ideation().  The operator skips a
\* step that is reported as executed.
AutoInitIdeation ==
    /\ pc = "init_ideation"
    /\ run_handler("ideation", FALSE, FALSE)
    /\ UNCHANGED runs

\* One iteration of main's while loop with the manager at the phase of artifact
\* step s: execute_next_step calls the handler of s, unforced.
AutoStep(s) ==
    /\ pc = "idle"
    /\ state.step # "done"
    /\ current_phase(state) = s
    /\ run_handler(s, FALSE, FALSE)
    /\ UNCHANGED runs

\* One iteration at DRAFTING: run_drafting_loop(auto_mode=True).
AutoDrafting ==
    /\ pc = "idle"
    /\ state.step # "done"
    /\ current_phase(state) = "drafting"
    /\ run_drafting_loop(FALSE, TRUE)
    /\ UNCHANGED runs

\* One iteration at REVIEW: run_review().
AutoReview ==
    /\ pc = "idle"
    /\ state.step # "done"
    /\ current_phase(state) = "review"
    /\ run_review(FALSE, FALSE)
    /\ UNCHANGED runs

NextAuto ==
    \/ \E target \in ProjectPhase : ForcedStart(target)
    \/ AutoInit
    \/ AutoInitIdeation
    \/ \E s \in HitlSteps : AutoStep(s)
    \/ AutoDrafting
    \/ AutoReview
    \/ HitlGenerate
    \/ HitlSave
    \/ HitlCheck
    \/ HitlFinal
    \/ Finalize
    \/ ProcessSceneEnter
    \/ GenerateSingle
    \/ PostProcess
    \/ \E i \in 1..Cardinality(SceneIds) : PolishTask(i)
    \/ ReviewJoin

\* A headless session (no operator at the prompts of run_step_with_hitl) on a new
\* project or on one that has its idea and its outline.  The loop keeps calling
\* execute_next_step while the phase is not DONE and nothing raised: a step that
\* can be taken is taken.
InitAuto ==
    /\ Init
    /\ ~interactive

SpecAuto == InitAuto /\ [][NextAuto]_vars /\ WF_vars(NextAuto)

\* C33: in auto mode from INIT, with the operator skipping every step that is
\* reported as executed, the loop eventually reaches DONE unless a generation
\* failed on the way (a provider error or a step that produced no candidate).
C33_AutoLoopReachesDone ==
    (pc = "init_ideation") ~>
        \/ state.step = "done"
        \/ /\ pc = "raised"
           /\ last \in {"ProviderError", "NoCandidates",
                        "RuntimeError: all candidates failed"}

\* C39: the auto loop always makes progress: no iteration (a step taken once the
\* forced start is over) comes back to the head of the loop with the state, the
\* snapshot and the files as they were, and the loop does not stay in one phase
\* forever without raising.
C39_AutoLoopProgress ==
    /\ [][(pc = "idle" /\ pc' = "idle" /\ last # "new")
              => <<state, disk, files, scene_files>>' # <<state, disk, files, scene_files>>]_vars
    /\ \A phase \in ProjectPhase \ {"done"} :
          ~<>[](state.step = phase /\ pc # "raised")

\* C34: when run_drafting_loop has completed without error, every root scene is
\* done and so is every node of the chosen branch path below it: each done node
\* that has branches has a done branch child.
C34_PassDraftsChosenPaths ==
    (pc = "idle" /\ last = "drafted") =>
        /\ \A i \in 1..Len(state.scenes.roots) :
              state.scenes.nodes[state.scenes.roots[i]].status = "done"
        /\ \A k \in DOMAIN state.scenes.nodes :
              (state.scenes.nodes[k].status = "done"
                   /\ state.scenes.nodes[k].branches # <<>>)
              => \E b \in 1..Len(state.scenes.nodes[k].branches) :
                     state.scenes.nodes[state.scenes.nodes[k].branches[b]].status = "done"

\* C38: under automatic selection the winner of the branching generation is the
\* lowest-numbered candidate among the tasks that succeeded, whatever the order
\* in which the finished tasks were collected.
C38_AutoWinnerIsLowestSurvivor ==
    (pc = "ab_promote" /\ ~interactive /\ ab.rerolls = 0) =>
        /\ ab.winner \in Succeeded
        /\ \A c \in Succeeded : ab.winner <= c

\* ---------------------------------------------------------------------------
\* providers/errors.py: retry_call; providers/openai_provider.py: generate
\* ---------------------------------------------------------------------------

\* The largest max_retries a provider is configured with.
MaxRetries == 2

\* What one call of fn() can end with: a response, or an exception.
Responses == {"resp_a", "resp_b"}

Exceptions == {"APITimeoutError", "RateLimitError", "AuthenticationError"}

\* A variant whose in-loop test lets one more attempt through.
retry_call_OneMore ==
    /\ pc = "retry_call"
    /\ IF tasks.attempt > tasks.max_retries + 1
       THEN /\ pc' = "raised"
            /\ last' = "ProviderError"
            /\ UNCHANGED tasks
       ELSE \/ \E resp \in Responses :
                /\ tasks' = [tasks EXCEPT !.calls = Append(@, tasks.fn),
                                          !.outcomes = Append(@, resp)]
                /\ pc' = "returned"
                /\ last' = resp
            \/ \E e \in Exceptions :
                /\ tasks' = [tasks EXCEPT !.calls = Append(@, tasks.fn),
                                          !.outcomes = Append(@, e)]
                /\ IF e \notin tasks.retryable_exceptions
                   THEN pc' = "raised" /\ last' = e
                   ELSE IF tasks.attempt > tasks.max_retries
                   THEN pc' = "raised" /\ last' = "ProviderError"
                   ELSE pc' = "retry_sleep" /\ UNCHANGED last
    /\ UNCHANGED <<state, disk, intact, files, interactive, hitl, runs, cfg, scene_files, ab>>

\* retry_call, one pass of the for loop up to the sleep: range(max_retries + 1)
\* exhausted raises ProviderError (line 40); else fn() is called, its result is
\* returned, an exception outside retryable_exceptions propagates as it is, and a
\* retryable one raises ProviderError on the last attempt and sleeps otherwise.
retry_call ==
    /\ pc = "retry_call"
    /\ IF tasks.attempt >= tasks.max_retries + 1
       THEN /\ pc' = "raised"
            /\ last' = "ProviderError"
            /\ UNCHANGED tasks
       ELSE \/ \E resp \in Responses :
                /\ tasks' = [tasks EXCEPT !.calls = Append(@, tasks.fn),
                                          !.outcomes = Append(@, resp)]
                /\ pc' = "returned"
                /\ last' = resp
            \/ \E e \in Exceptions :
                /\ tasks' = [tasks EXCEPT !.calls = Append(@, tasks.fn),
                                          !.outcomes = Append(@, e)]
                /\ IF e \notin tasks.retryable_exceptions
                   THEN pc' = "raised" /\ last' = e
                   ELSE IF tasks.attempt >= tasks.max_retries
                   THEN pc' = "raised" /\ last' = "ProviderError"
                   ELSE pc' = "retry_sleep" /\ UNCHANGED last
    /\ UNCHANGED <<state, disk, intact, files, interactive, hitl, runs, cfg, scene_files, ab>>

\* Lines 38-39: the backoff sleep, then the next value of the loop variable.
RetrySleep ==
    /\ pc = "retry_sleep"
    /\ tasks' = [tasks EXCEPT !.attempt = @ + 1]
    /\ pc' = "retry_call"
    /\ UNCHANGED <<state, disk, intact, files, interactive, hitl, runs, last, cfg,
                   scene_files, ab>>

\* A provider about to call retry_call with its request closure, its max_retries
\* (range(0) is empty, so -1 is included as the value that makes no attempt) and
\* its retryable classes (openai_provider.py lines 13-29: the classes the SDK
\* exposes, else every Exception).  The frame of the call is kept in tasks: its
\* arguments, the loop variable, and the calls of fn made so far with what each
\* ended with.
InitRetry ==
    /\ state = ProjectState
    /\ disk = save(state)
    /\ intact = TRUE
    /\ files = [s \in HitlSteps |-> NoFile]
    /\ interactive = FALSE
    /\ pc = "retry_call"
    /\ hitl = NoHitl
    /\ runs = 0
    /\ last = "running"
    /\ cfg = [branching |-> FALSE, auto_polish |-> FALSE]
    /\ scene_files = NoSceneFiles
    /\ ab = NoAb
    /\ \E fn \in {"_call", "_start_stream"}, max_retries \in -1..MaxRetries,
          retryable_exceptions \in {{"APITimeoutError", "RateLimitError"}, Exceptions} :
          tasks = [fn |-> fn, max_retries |-> max_retries,
                   retryable_exceptions |-> retryable_exceptions,
                   attempt |-> 0, calls |-> <<>>, outcomes |-> <<>>]

SpecRetry == InitRetry /\ [][retry_call \/ RetrySleep]_vars

\* C35: retry_call calls fn at most max_retries + 1 times and every call is the
\* same call; it returns the result of the first attempt that succeeds, raises
\* ProviderError exactly when every one of the max_retries + 1 attempts failed
\* with a retryable exception, and lets an exception that is not retryable
\* propagate unchanged from the attempt that raised it, after which (as after a
\* return) no further attempt is made.
C35_RetryCall ==
    /\ [](/\ Len(tasks.calls) <= tasks.max_retries + 1
          /\ Len(tasks.outcomes) = Len(tasks.calls)
          /\ \A i \in 1..Len(tasks.calls) : tasks.calls[i] = tasks.fn
          /\ \A i \in 1..(Len(tasks.outcomes) - 1) :
                tasks.outcomes[i] \in tasks.retryable_exceptions
          /\ pc = "returned" =>
                /\ last \in Responses
                /\ last = tasks.outcomes[Len(tasks.outcomes)]
          /\ (pc = "raised" /\ last = "ProviderError") =>
                /\ Len(tasks.calls) = tasks.max_retries + 1
                /\ \A i \in 1..Len(tasks.outcomes) :
                      tasks.outcomes[i] \in tasks.retryable_exceptions
          /\ (pc = "raised" /\ last # "ProviderError") =>
                /\ last = tasks.outcomes[Len(tasks.outcomes)]
                /\ last \in Exceptions \ tasks.retryable_exceptions
          /\ (/\ Len(tasks.calls) = tasks.max_retries + 1
              /\ pc # "retry_call"
              /\ \A i \in 1..Len(tasks.outcomes) :
                    tasks.outcomes[i] \in tasks.retryable_exceptions)
                => (pc = "raised" /\ last = "ProviderError"))
    /\ [][(pc \in {"returned", "raised"}) => (tasks' = tasks)]_vars

C35_Witness ==
    /\ pc = "raised"
    /\ last = "ProviderError"
    /\ tasks.max_retries = MaxRetries
    /\ Len(tasks.calls) = MaxRetries + 1
    /\ tasks.retryable_exceptions # Exceptions

\* C37: after any summaries and consolidations, every scene with a summary that
\* lies on the path to a target before the target is in the target's recency
\* context exactly once: in exactly one archived entry and not in the recent
\* block, or in the recent block and in no archived entry.
C37_SummarizedOnceInContext ==
    \A t \in 1..Len(state.scenes.nodes) :
        LET path == get_linear_path(state.scenes, state.scenes.nodes[t].id)
            recent == recent_summaries(state, state.scenes.nodes[t].id)
        IN
        \A i \in 1..(Len(path) - 1) :
            LET id == state.scenes.nodes[path[i]].id
                entries == {e \in 1..Len(state.archived_summaries) :
                               \E j \in 1..Len(state.archived_summaries[e]) :
                                   state.archived_summaries[e][j] = id}
                listed == {j \in 1..Len(recent) : recent[j][1] = id}
            IN
            state.scenes.nodes[path[i]].summary # ""
                => Cardinality(entries) + Cardinality(listed) = 1

====
